---- MODULE Spec2Model ----
(***************************************************************************)
(* Model of the cycling data utilities: the accumulating validators of     *)
(* validators.ts and fetchWithRetry of dataLoader.ts.                      *)
(*                                                                         *)
(* JavaScript values are tagged records.  Finite numbers are integers      *)
(* (minutes, milliseconds, HTTP statuses); the non-finite numbers are kept *)
(* apart by `kind`.  Strings are TLA+ strings and the string methods the   *)
(* code calls (trim, toLowerCase, endsWith) are computed on them.          *)
(***************************************************************************)
EXTENDS Integers, Sequences, FiniteSets, TLC

VARIABLES
    vpc,        \* validators: "idle" | "done"
    vcall,      \* validators: the call made, [fn |-> ..., ...]
    vout,       \* validators: what the call produced
    vmut,       \* validators: 0, or the (1-based) position whose Elapsed Time was changed
    fcfg,       \* fetchWithRetry: [url, timeoutMs, retries, retryDelayMs]
    fpc,        \* fetchWithRetry: position of the async function
    attempt,    \* fetchWithRetry: loop variable
    now,        \* fetchWithRetry: clock, ms
    timers,     \* fetchWithRetry: armed timers, records [kind, attempt, at]
    net,        \* fetchWithRetry: the request in flight, or NoRequest
    lastError,  \* fetchWithRetry: lastError
    fout,       \* fetchWithRetry: result of the call
    hist,       \* fetchWithRetry: observation log (requests, waits, aborts)
    fwd,        \* fetchWorkoutDetails: the frame awaiting fetchWithRetry, and its outcome
    lpc,        \* loader: "idle" | "done" | "validated"
    lcall,      \* loader: the call made
    lout,       \* loader: what the call returned or threw
    lval,       \* loader: validateWorkoutDetails of the loaded structure
    rpc,        \* validate-data: position of main()
    rfs,        \* validate-data: the files on disk, path -> file
    summaries,  \* validate-data: summaries
    printed,    \* validate-data: what was written to standard output
    exitCode    \* validate-data: the code handed to process.exit, or -1

vvars == <<vpc, vcall, vout, vmut>>
fvars == <<fcfg, fpc, attempt, now, timers, net, lastError, fout, hist, fwd>>
lvars == <<lpc, lcall, lout, lval>>
rvars == <<rpc, rfs, summaries, printed, exitCode>>
vars == <<vpc, vcall, vout, vmut, fcfg, fpc, attempt, now, timers, net, lastError, fout, hist,
          fwd, lpc, lcall, lout, lval, rpc, rfs, summaries, printed, exitCode>>

----------------------------------------------------------------------------
(* JavaScript values *)

Undefined == [tag |-> "undefined"]
Null == [tag |-> "null"]
Bool(b) == [tag |-> "boolean", b |-> b]
Num(n) == [tag |-> "number", kind |-> "finite", n |-> n]
NaN == [tag |-> "number", kind |-> "NaN", n |-> 0]
PosInfinity == [tag |-> "number", kind |-> "Infinity", n |-> 0]
Str(s) == [tag |-> "string", s |-> s]
Obj(fields) == [tag |-> "object", fields |-> fields]
Arr(items) == [tag |-> "array", items |-> items]

\* typeof v
TypeOf(v) ==
    IF v.tag \in {"null", "array"} THEN "object" ELSE v.tag

\* Array.isArray(v)
IsArray(v) ==
    v.tag = "array"

\* Number.isFinite(v)
IsFinite(v) ==
    v.tag = "number" /\ v.kind = "finite"

\* typeof v === "number" && Number.isFinite(v)
IsFiniteNumber(v) ==
    TypeOf(v) = "number" /\ IsFinite(v)

\* v[key] for a value that is not null or undefined: a missing property, and any
\* of these properties of a primitive or an array, reads as undefined
Get(v, key) ==
    IF v.tag = "object" /\ key \in DOMAIN v.fields THEN v.fields[key] ELSE Undefined

\* reading a property of null or undefined raises TypeError
PropertyReadThrows(v) ==
    v.tag \in {"null", "undefined"}

----------------------------------------------------------------------------
(* String methods *)

CharAt(s, i) ==
    SubSeq(s, i, i)

IsSpace(c) ==
    c \in {" ", "\t", "\n", "\r"}

RECURSIVE TrimStart(_)
TrimStart(s) ==
    IF Len(s) > 0 /\ IsSpace(CharAt(s, 1)) THEN TrimStart(Tail(s)) ELSE s

RECURSIVE TrimEnd(_)
TrimEnd(s) ==
    IF Len(s) > 0 /\ IsSpace(CharAt(s, Len(s)))
    THEN TrimEnd(SubSeq(s, 1, Len(s) - 1))
    ELSE s

\* s.trim()
Trim(s) ==
    TrimEnd(TrimStart(s))

UpperLetters == "ABCDEFGHIJKLMNOPQRSTUVWXYZ"
LowerLetters == "abcdefghijklmnopqrstuvwxyz"

\* position of the one-character string c in s, 0 when absent
RECURSIVE IndexOfFrom(_, _, _)
IndexOfFrom(s, c, i) ==
    IF i > Len(s) THEN 0
    ELSE IF CharAt(s, i) = c THEN i
    ELSE IndexOfFrom(s, c, i + 1)

IndexOf(s, c) ==
    IndexOfFrom(s, c, 1)

LowerChar(c) ==
    LET k == IndexOf(UpperLetters, c)
    IN IF k = 0 THEN c ELSE CharAt(LowerLetters, k)

\* s.toLowerCase()
RECURSIVE ToLowerCase(_)
ToLowerCase(s) ==
    IF Len(s) = 0 THEN s ELSE LowerChar(CharAt(s, 1)) \o ToLowerCase(Tail(s))

\* s.endsWith(suffix)
EndsWith(s, suffix) ==
    /\ Len(s) >= Len(suffix)
    /\ SubSeq(s, Len(s) - Len(suffix) + 1, Len(s)) = suffix

StartsWith(s, prefix) ==
    /\ Len(s) >= Len(prefix)
    /\ SubSeq(s, 1, Len(prefix)) = prefix

----------------------------------------------------------------------------
(* ValidationResult *)

\* const result = { valid: true, errors: [], warnings: [] }
NewResult == [valid |-> TRUE, errors |-> <<>>, warnings |-> <<>>]

\* result.valid = false; result.errors.push(m)
PushError(r, m) ==
    [valid |-> FALSE, errors |-> Append(r.errors, m), warnings |-> r.warnings]

\* a slip: pushing a warning also clears valid
PushWarningInvalidates(r, m) ==
    [valid |-> FALSE, errors |-> r.errors, warnings |-> Append(r.warnings, m)]

\* result.warnings.push(m)
PushWarning(r, m) ==
    [valid |-> r.valid, errors |-> r.errors, warnings |-> Append(r.warnings, m)]

----------------------------------------------------------------------------
(* validators.ts: validateSegment *)

VALID_ACTIVITIES ==
    {"Warm-up", "Intervals", "Recovery", "Cool-down", "Bonus Interval",
     "Standing Jog", "Satnding Jog", "Winding Streets", "Seated Climb",
     "Sprint", "Hill Climb", "Endurance"}

\* a slip: the Resistance bound is one too high
CONSTRAINTS_maxResistance21 ==
    [minResistance |-> 1, maxResistance |-> 21, minCadence |-> 30,
     maxCadence |-> 150, minTime |-> 1, maxTime |-> 60, maxElapsedTime |-> 120]

CONSTRAINTS ==
    [minResistance |-> 1, maxResistance |-> 20, minCadence |-> 30,
     maxCadence |-> 150, minTime |-> 1, maxTime |-> 60, maxElapsedTime |-> 120]

\* a message of validateSegment: the segment index it names, the field and the text
SegMsg(index, field, text) ==
    [idx |-> index, field |-> field, text |-> text]

\* // Validate Time
SegmentTime(r, s, index) ==
    LET v == Get(s, "Time")
    IN IF TypeOf(v) # "number"
       THEN PushError(r, SegMsg(index, "Time", "must be a number"))
       ELSE IF ~IsFinite(v)
       THEN PushError(r, SegMsg(index, "Time", "must be a finite number"))
       ELSE IF v.n < CONSTRAINTS.minTime
       THEN PushError(r, SegMsg(index, "Time", "is less than minimum"))
       ELSE IF v.n > CONSTRAINTS.maxTime
       THEN PushWarning(r, SegMsg(index, "Time", "exceeds typical maximum"))
       ELSE r

\* // Validate Activity
SegmentActivity(r, s, index) ==
    LET v == Get(s, "Activity")
    IN IF TypeOf(v) # "string"
       THEN PushError(r, SegMsg(index, "Activity", "must be a string"))
       ELSE IF Trim(v.s) = ""
       THEN PushError(r, SegMsg(index, "Activity", "cannot be empty"))
       ELSE IF v.s \notin VALID_ACTIVITIES
       THEN PushWarning(r, SegMsg(index, "Activity", "is not a recognized activity type"))
       ELSE r

\* // Validate Resistance
SegmentResistance(r, s, index) ==
    LET v == Get(s, "Resistance")
    IN IF TypeOf(v) # "number"
       THEN PushError(r, SegMsg(index, "Resistance", "must be a number"))
       ELSE IF ~IsFinite(v)
       THEN PushError(r, SegMsg(index, "Resistance", "must be a finite number"))
       ELSE IF v.n < CONSTRAINTS.minResistance
       THEN PushError(r, SegMsg(index, "Resistance", "is less than minimum"))
       ELSE IF v.n > CONSTRAINTS.maxResistance
       THEN PushError(r, SegMsg(index, "Resistance", "exceeds maximum"))
       ELSE r

\* // Validate Cadence
SegmentCadence(r, s, index) ==
    LET v == Get(s, "Cadence")
    IN IF TypeOf(v) # "number"
       THEN PushError(r, SegMsg(index, "Cadence", "must be a number"))
       ELSE IF ~IsFinite(v)
       THEN PushError(r, SegMsg(index, "Cadence", "must be a finite number"))
       ELSE IF v.n < CONSTRAINTS.minCadence
       THEN PushError(r, SegMsg(index, "Cadence", "is less than minimum"))
       ELSE IF v.n > CONSTRAINTS.maxCadence
       THEN PushError(r, SegMsg(index, "Cadence", "exceeds maximum"))
       ELSE r

\* a slip: the Stroke instruction is not looked at
SegmentStrokeInstructionSkipped(r, s, index) ==
    r

\* // Validate Stroke instruction (can be empty)
SegmentStrokeInstruction(r, s, index) ==
    IF TypeOf(Get(s, "Stroke instruction")) # "string"
    THEN PushError(r, SegMsg(index, "Stroke instruction", "must be a string"))
    ELSE r

\* the error of the consistency check: it cites the expected value
MismatchMsg(index, elapsed, expectedElapsed, previousElapsedTime, time) ==
    [idx |-> index, field |-> "Elapsed Time", text |-> "does not match expected",
     elapsed |-> elapsed, expected |-> expectedElapsed,
     previous |-> previousElapsedTime, time |-> time]

\* // Validate Elapsed Time
SegmentElapsedTime(r, s, index, previousElapsedTime) ==
    LET v == Get(s, "Elapsed Time")
        t == Get(s, "Time")
    IN IF TypeOf(v) # "number"
       THEN PushError(r, SegMsg(index, "Elapsed Time", "must be a number"))
       ELSE IF ~IsFinite(v)
       THEN PushError(r, SegMsg(index, "Elapsed Time", "must be a finite number"))
       ELSE IF v.n < 0
       THEN PushError(r, SegMsg(index, "Elapsed Time", "cannot be negative"))
       ELSE IF v.n > CONSTRAINTS.maxElapsedTime
       THEN PushWarning(r, SegMsg(index, "Elapsed Time", "exceeds typical workout duration"))
       ELSE IF TypeOf(t) = "number" /\ IsFinite(t)
       THEN LET expectedElapsed == previousElapsedTime + t.n
            IN IF v.n # expectedElapsed
               THEN PushError(r, MismatchMsg(index, v.n, expectedElapsed,
                                             previousElapsedTime, t.n))
               ELSE r
       ELSE r

validateSegment(segment, index, previousElapsedTime) ==
    IF TypeOf(segment) # "object" \/ segment = Null
    THEN PushError(NewResult, SegMsg(index, "", "must be an object"))
    ELSE LET r1 == SegmentTime(NewResult, segment, index)
             r2 == SegmentActivity(r1, segment, index)
             r3 == SegmentResistance(r2, segment, index)
             r4 == SegmentCadence(r3, segment, index)
             r5 == SegmentStrokeInstruction(r4, segment, index)
         IN SegmentElapsedTime(r5, segment, index, previousElapsedTime)

----------------------------------------------------------------------------
(* validators.ts: validateWorkoutDetails *)

\* an uncaught TypeError leaves the function instead of a ValidationResult
TypeErrorThrown == [thrown |-> "TypeError"]

Threw(out) ==
    "thrown" \in DOMAIN out

\* a message of validateWorkoutDetails itself, naming no segment
DetailsMsg(text) ==
    [idx |-> -1, field |-> "", text |-> text]

\* if (!segmentResult.valid) result.valid = false; push(...errors); push(...warnings)
AddSegmentResult(result, segmentResult) ==
    [valid |-> IF ~segmentResult.valid THEN FALSE ELSE result.valid,
     errors |-> result.errors \o segmentResult.errors,
     warnings |-> result.warnings \o segmentResult.warnings]

\* a slip: the running sum is never advanced
NextPreviousElapsedTimeStale(previousElapsedTime, segment) ==
    previousElapsedTime

\* // Update previous elapsed time for next iteration
NextPreviousElapsedTime(previousElapsedTime, segment) ==
    LET t == Get(segment, "Time")
    IN IF TypeOf(t) = "number" /\ IsFinite(t)
       THEN previousElapsedTime + t.n
       ELSE previousElapsedTime

\* for (let i = 0; i < workoutDetails.length; i++) { ... }; i is 1-based here and
\* the index handed to validateSegment is i - 1
RECURSIVE SegmentsLoop(_, _, _, _)
SegmentsLoop(items, i, previousElapsedTime, result) ==
    IF i > Len(items) THEN result
    ELSE LET segmentResult == validateSegment(items[i], i - 1, previousElapsedTime)
             merged == AddSegmentResult(result, segmentResult)
         IN IF PropertyReadThrows(items[i])
            THEN TypeErrorThrown
            ELSE SegmentsLoop(items, i + 1,
                              NextPreviousElapsedTime(previousElapsedTime, items[i]),
                              merged)

\* // Check for proper warm-up
WarmUpCheck(r, items) ==
    LET a == Get(items[1], "Activity")
    IN IF TypeOf(a) = "string" /\ a.s # "Warm-up"
       THEN PushWarning(r, DetailsMsg("does not start with a Warm-up"))
       ELSE r

\* // Check for proper cool-down
CoolDownCheck(r, items) ==
    LET a == Get(items[Len(items)], "Activity")
    IN IF TypeOf(a) = "string" /\ a.s # "Cool-down"
       THEN PushWarning(r, DetailsMsg("does not end with a Cool-down"))
       ELSE r

validateWorkoutDetails(workoutDetails) ==
    IF ~IsArray(workoutDetails)
    THEN PushError(NewResult, DetailsMsg("Workout details must be an array"))
    ELSE IF Len(workoutDetails.items) = 0
    THEN PushError(NewResult, DetailsMsg("Workout details array is empty"))
    ELSE LET looped == SegmentsLoop(workoutDetails.items, 1, 0, NewResult)
         IN IF Threw(looped) THEN looped
            ELSE CoolDownCheck(WarmUpCheck(looped, workoutDetails.items),
                               workoutDetails.items)

----------------------------------------------------------------------------
(* new URL(url): the part of the URL parser the code depends on -- whether the
   string parses without a base, its protocol and its hostname *)

Digits == "0123456789"

IsAlpha(c) ==
    IndexOf(UpperLetters, c) # 0 \/ IndexOf(LowerLetters, c) # 0

IsSchemeChar(c) ==
    IsAlpha(c) \/ IndexOf(Digits, c) # 0 \/ c \in {"+", "-", "."}

RECURSIVE AllSchemeChars(_)
AllSchemeChars(s) ==
    Len(s) = 0 \/ (IsSchemeChar(CharAt(s, 1)) /\ AllSchemeChars(Tail(s)))

\* a scheme starts with a letter and continues with letters, digits, + - .
IsScheme(s) ==
    Len(s) > 0 /\ IsAlpha(CharAt(s, 1)) /\ AllSchemeChars(s)

SpecialSchemes == {"http", "https", "ftp", "ws", "wss"}

\* the characters of s before the first one that is in stops
RECURSIVE TakeUntil(_, _)
TakeUntil(s, stops) ==
    IF Len(s) = 0 \/ CharAt(s, 1) \in stops THEN ""
    ELSE CharAt(s, 1) \o TakeUntil(Tail(s), stops)

RECURSIVE DropWhile(_, _)
DropWhile(s, chars) ==
    IF Len(s) > 0 /\ CharAt(s, 1) \in chars THEN DropWhile(Tail(s), chars) ELSE s

RECURSIVE HasCharIn(_, _)
HasCharIn(s, chars) ==
    Len(s) > 0 /\ (CharAt(s, 1) \in chars \/ HasCharIn(Tail(s), chars))

ForbiddenHostChars == {" ", "<", ">", "[", "]", "^", "|", "%", "@"}

UrlFailure == [ok |-> FALSE]

ParseURL(url) ==
    LET input == Trim(url)
        colon == IndexOf(input, ":")
        scheme == ToLowerCase(SubSeq(input, 1, colon - 1))
        rest == SubSeq(input, colon + 1, Len(input))
        special == scheme \in SpecialSchemes
        afterSlashes == IF special THEN DropWhile(rest, {"/", "\\"})
                        ELSE SubSeq(rest, 3, Len(rest))
        hasAuthority == special \/ StartsWith(rest, "//")
        authority == TakeUntil(afterSlashes, {"/", "\\", "?", "#"})
        host == TakeUntil(authority, {":"})
    IN IF colon = 0 \/ ~IsScheme(scheme) THEN UrlFailure
       ELSE IF ~hasAuthority
       THEN [ok |-> TRUE, protocol |-> scheme \o ":", hostname |-> ""]
       ELSE IF (special /\ host = "") \/ HasCharIn(host, ForbiddenHostChars)
       THEN UrlFailure
       ELSE [ok |-> TRUE, protocol |-> scheme \o ":", hostname |-> ToLowerCase(host)]

----------------------------------------------------------------------------
(* validators.ts: validateUrl, validateWorkout, validateVideo *)

\* a slip: a suffix match without the dot
DomainAllowedBySuffix(domain, allowedDomains) ==
    \E k \in 1..Len(allowedDomains) :
        EndsWith(domain, ToLowerCase(allowedDomains[k]))

\* allowedDomains.some((allowed) => domain === allowed.toLowerCase() ||
\*                                 domain.endsWith(`.${allowed.toLowerCase()}`))
DomainAllowed(domain, allowedDomains) ==
    \E k \in 1..Len(allowedDomains) :
        \/ domain = ToLowerCase(allowedDomains[k])
        \/ EndsWith(domain, "." \o ToLowerCase(allowedDomains[k]))

\* allowedDomains is a sequence of strings; << >> stands for both an absent and
\* an empty list, which the code treats alike
validateUrl(url, allowedDomains) ==
    IF url = "" \/ Trim(url) = ""
    THEN PushError(NewResult, "URL is empty")
    ELSE LET parsedUrl == ParseURL(url)
         IN IF ~parsedUrl.ok
            THEN PushError(NewResult, "Invalid URL format: " \o url)
            ELSE IF parsedUrl.protocol \notin {"http:", "https:"}
            THEN PushError(NewResult, "Invalid protocol: " \o parsedUrl.protocol)
            ELSE LET r1 == IF parsedUrl.protocol = "http:"
                           THEN PushWarning(NewResult, "URL uses insecure HTTP protocol")
                           ELSE NewResult
                     domain == ToLowerCase(parsedUrl.hostname)
                 IN IF Len(allowedDomains) > 0 /\ ~DomainAllowed(domain, allowedDomains)
                    THEN PushError(r1, "Domain '" \o domain \o "' is not in allowed list")
                    ELSE r1

\* msgs.map((e) => `${prefix}${e}`)
Prefixed(msgs, prefix) ==
    [k \in 1..Len(msgs) |-> prefix \o msgs[k]]

\* if (!urlResult.valid) { result.valid = false; result.errors.push(...prefixed) }
\* result.warnings.push(...prefixed)
AddUrlResult(result, urlResult, prefix) ==
    [valid |-> IF ~urlResult.valid THEN FALSE ELSE result.valid,
     errors |-> IF ~urlResult.valid
                THEN result.errors \o Prefixed(urlResult.errors, prefix)
                ELSE result.errors,
     warnings |-> result.warnings \o Prefixed(urlResult.warnings, prefix)]

\* // Validate Title (validateWorkout and validateVideo)
TitleCheck(r, o) ==
    LET v == Get(o, "Title")
    IN IF TypeOf(v) # "string"
       THEN PushError(r, "Title must be a string, got " \o TypeOf(v))
       ELSE IF Trim(v.s) = ""
       THEN PushError(r, "Title cannot be empty")
       ELSE r

ImageDomains == <<"amazonaws.com", "github.com", "githubusercontent.com">>
WorkoutUrlDomains == <<"github.com", "githubusercontent.com", "raw.githubusercontent.com">>
VideoDomains == <<"amazonaws.com">>
videoExtensions == <<".mp4", ".webm", ".mov", ".avi">>

\* // Validate Image URL (validateWorkout and validateVideo)
ImageCheck(r, o) ==
    LET v == Get(o, "Image")
    IN IF TypeOf(v) # "string"
       THEN PushError(r, "Image must be a string, got " \o TypeOf(v))
       ELSE AddUrlResult(r, validateUrl(v.s, ImageDomains), "Image URL: ")

\* // Validate Workout_URL
WorkoutUrlCheck(r, w) ==
    LET v == Get(w, "Workout_URL")
    IN IF TypeOf(v) # "string"
       THEN PushError(r, "Workout_URL must be a string, got " \o TypeOf(v))
       ELSE LET r1 == AddUrlResult(r, validateUrl(v.s, WorkoutUrlDomains), "Workout_URL: ")
            IN IF v.s # "" /\ ~EndsWith(ToLowerCase(v.s), ".json")
               THEN PushWarning(r1, "Workout_URL does not end with .json extension")
               ELSE r1

validateWorkout(workout) ==
    IF TypeOf(workout) # "object" \/ workout = Null
    THEN PushError(NewResult, "Workout must be an object, got " \o TypeOf(workout))
    ELSE WorkoutUrlCheck(ImageCheck(TitleCheck(NewResult, workout), workout), workout)

\* // Validate Subtitle
SubtitleCheck(r, v) ==
    IF TypeOf(Get(v, "Subtitle")) # "string"
    THEN PushError(r, "Subtitle must be a string, got " \o TypeOf(Get(v, "Subtitle")))
    ELSE r

\* // Validate Video URL
VideoUrlCheck(r, o) ==
    LET v == Get(o, "Video")
        hasVideoExt == \E k \in 1..Len(videoExtensions) :
                           EndsWith(ToLowerCase(v.s), videoExtensions[k])
    IN IF TypeOf(v) # "string"
       THEN PushError(r, "Video must be a string, got " \o TypeOf(v))
       ELSE LET r1 == AddUrlResult(r, validateUrl(v.s, VideoDomains), "Video URL: ")
            IN IF ~hasVideoExt
               THEN PushWarning(r1, "Video URL does not end with a known video extension")
               ELSE r1

validateVideo(video) ==
    IF TypeOf(video) # "object" \/ video = Null
    THEN PushError(NewResult, "Video must be an object, got " \o TypeOf(video))
    ELSE VideoUrlCheck(
             ImageCheck(SubtitleCheck(TitleCheck(NewResult, video), video), video),
             video)

----------------------------------------------------------------------------
(* validators.ts: validateWorkoutsList, validateVideosList *)

\* a slip: the validity of the last child replaces that of the others
AddChildResultLastWins(result, childResult, prefix) ==
    [valid |-> childResult.valid,
     errors |-> result.errors \o Prefixed(childResult.errors, prefix),
     warnings |-> result.warnings \o Prefixed(childResult.warnings, prefix)]

\* if (!childResult.valid) result.valid = false;
\* result.errors.push(...prefixed errors); result.warnings.push(...prefixed warnings)
AddChildResult(result, childResult, prefix) ==
    [valid |-> IF ~childResult.valid THEN FALSE ELSE result.valid,
     errors |-> result.errors \o Prefixed(childResult.errors, prefix),
     warnings |-> result.warnings \o Prefixed(childResult.warnings, prefix)]

RECURSIVE WorkoutsLoop(_, _, _)
WorkoutsLoop(items, i, result) ==
    IF i > Len(items) THEN result
    ELSE WorkoutsLoop(items, i + 1,
             AddChildResult(result, validateWorkout(items[i]),
                            "Workout " \o ToString(i - 1) \o ": "))

validateWorkoutsList(workouts) ==
    IF ~IsArray(workouts)
    THEN PushError(NewResult, "Workouts must be an array, got " \o TypeOf(workouts))
    ELSE WorkoutsLoop(workouts.items, 1,
             IF Len(workouts.items) = 0
             THEN PushWarning(NewResult, "Workouts array is empty")
             ELSE NewResult)

RECURSIVE VideosLoop(_, _, _)
VideosLoop(items, i, result) ==
    IF i > Len(items) THEN result
    ELSE VideosLoop(items, i + 1,
             AddChildResult(result, validateVideo(items[i]),
                            "Video " \o ToString(i - 1) \o ": "))

validateVideosList(videos) ==
    IF ~IsArray(videos)
    THEN PushError(NewResult, "Videos must be an array, got " \o TypeOf(videos))
    ELSE VideosLoop(videos.items, 1,
             IF Len(videos.items) = 0
             THEN PushWarning(NewResult, "Videos array is empty")
             ELSE NewResult)

----------------------------------------------------------------------------
(* Inputs handed to the validators *)

\* longest timeline whose Elapsed Time values are running sums
MaxSegs == 3
\* longest array of arbitrary elements
MaxItems == 2

Segment(time, activity, resistance, cadence, stroke, elapsed) ==
    Obj(("Time" :> time) @@ ("Activity" :> activity) @@ ("Resistance" :> resistance)
        @@ ("Cadence" :> cadence) @@ ("Stroke instruction" :> stroke)
        @@ ("Elapsed Time" :> elapsed))

\* an object with no property at all
EmptyObject == Obj(<<>>)

TimeValues == {Undefined, NaN, Num(0), Num(1), Num(5), Num(61)}
ActivityValues == {Undefined, Str(" "), Str("Warm-up"), Str("Zumba")}
ResistanceValues == {Str("5"), Num(0), Num(1), Num(20), Num(21)}
CadenceValues == {PosInfinity, Num(29), Num(30), Num(150), Num(151)}
StrokeValues == {Null, Str("")}
ElapsedValues ==
    {Undefined, NaN, Num(-1), Num(4), Num(5), Num(6), Num(65), Num(121), Num(130)}
PreviousValues == {0, 4, 125}

SegmentObjects ==
    {Segment(t, a, r, c, st, e) :
        t \in TimeValues, a \in ActivityValues, r \in ResistanceValues,
        c \in CadenceValues, st \in StrokeValues, e \in ElapsedValues}

\* a segment every field of which is in range
GoodSegment(time, activity, elapsed) ==
    Segment(Num(time), Str(activity), Num(5), Num(90), Str("Steady"), Num(elapsed))

\* sequences over S of length lo..hi
SeqsOf(S, lo, hi) ==
    UNION {[1..n -> S] : n \in lo..hi}

RECURSIVE SumTo(_, _)
SumTo(times, i) ==
    IF i = 0 THEN 0 ELSE SumTo(times, i - 1) + times[i]

TimelineTimes == {1, 30, 100}
FirstActivities == {"Warm-up", "Sprint"}
LastActivities == {"Cool-down", "Zumba"}

\* a timeline whose Elapsed Time is the running sum of Time
Timeline(times, first, last) ==
    Arr([i \in 1..Len(times) |->
            GoodSegment(times[i],
                        IF i = 1 THEN first
                        ELSE IF i = Len(times) THEN last ELSE "Intervals",
                        SumTo(times, i))])

Timelines ==
    {Timeline(times, first, last) :
        times \in SeqsOf(TimelineTimes, 1, MaxSegs),
        first \in FirstActivities, last \in LastActivities}

\* what one Elapsed Time of an accepted timeline is changed to
ChangedElapsedValues ==
    {Undefined, NaN, Num(-1), Num(0), Num(2), Num(31), Num(101), Num(121),
     Num(200), Num(1000)}

ElementValues ==
    {Null, Undefined, Num(7), Str("x"), Bool(TRUE), Arr(<<>>), EmptyObject,
     GoodSegment(5, "Warm-up", 5), GoodSegment(5, "Cool-down", 10),
     GoodSegment(100, "Sprint", 130),
     Segment(NaN, Str("Warm-up"), Num(5), Num(90), Str(""), Num(5)),
     Segment(Num(5), Str(""), Num(0), Num(151), Undefined, Num(-1))}

NonArrays == {Null, Undefined, Num(0), Str("[]"), EmptyObject}

DetailsInputs ==
    Timelines \cup NonArrays \cup {Arr(items) : items \in SeqsOf(ElementValues, 0, MaxItems)}

UrlValues ==
    {"", "   ", "not a url", "https://", "ftp://x.com/f.json", "http://x.com/a.json",
     "https://sub.github.com/w.JSON", "https://notgithub.com/w.json",
     "https://GitHub.com/clip.mp4", "https://s3.amazonaws.com/v.MP4",
     "https://raw.githubusercontent.com/u/r/w.json", "mailto:a@github.com"}

AllowedDomainsValues ==
    {<<>>, <<"github.com">>, <<"GitHub.com", "amazonaws.com">>, ImageDomains}

TitleValues == {Undefined, Str("  "), Str("Hill ride")}
SubtitleValues == {Num(1), Str("")}
UrlFieldValues ==
    {Undefined, Str(""), Str("not a url"), Str("http://x.com/a.json"),
     Str("https://sub.github.com/w.JSON"), Str("https://s3.amazonaws.com/v.MP4")}

WorkoutObjects ==
    {Obj([Title |-> t, Image |-> i, Workout_URL |-> u]) :
        t \in TitleValues, i \in UrlFieldValues, u \in UrlFieldValues}

VideoObjects ==
    {Obj([Title |-> t, Subtitle |-> s, Image |-> i, Video |-> u]) :
        t \in TitleValues, s \in SubtitleValues, i \in UrlFieldValues,
        u \in UrlFieldValues}

NonObjects == {Null, Undefined, Num(7), Str("x"), Arr(<<>>)}

WorkoutElements ==
    {Null, Num(7), EmptyObject,
     Obj([Title |-> Str("A"), Image |-> Str("https://s3.amazonaws.com/i.png"),
          Workout_URL |-> Str("https://raw.githubusercontent.com/u/r/w.json")]),
     Obj([Title |-> Str("B"), Image |-> Str("http://github.com/i.png"),
          Workout_URL |-> Str("https://evil.com/w")])}

VideoElements ==
    {Undefined, Str("x"), EmptyObject,
     Obj([Title |-> Str("A"), Subtitle |-> Str(""),
          Image |-> Str("https://s3.amazonaws.com/i.png"),
          Video |-> Str("https://s3.amazonaws.com/v.mp4")]),
     Obj([Title |-> Str("B"), Subtitle |-> Str("s"),
          Image |-> Str("http://github.com/i.png"),
          Video |-> Str("https://github.com/v")])}

----------------------------------------------------------------------------
(* The validators as called by a client: one call at a time, each loop run whole *)

NoCall == [fn |-> "none"]
NoResult == [none |-> TRUE]

ValidatorsIdle ==
    /\ vpc = "idle"
    /\ vcall = NoCall
    /\ vout = NoResult
    /\ vmut = 0

CallValidateSegment ==
    /\ vpc = "idle"
    /\ \E segment \in SegmentObjects \cup NonObjects, previous \in PreviousValues :
        /\ vcall' = [fn |-> "validateSegment", arg |-> segment, index |-> 2,
                     previousElapsedTime |-> previous]
        /\ vout' = validateSegment(segment, 2, previous)
    /\ vpc' = "done"
    /\ UNCHANGED <<vmut, fvars, lvars, rvars>>

CallValidateWorkoutDetails ==
    /\ vpc = "idle"
    /\ \E workoutDetails \in DetailsInputs :
        /\ vcall' = [fn |-> "validateWorkoutDetails", arg |-> workoutDetails]
        /\ vout' = validateWorkoutDetails(workoutDetails)
    /\ vpc' = "done"
    /\ UNCHANGED <<vmut, fvars, lvars, rvars>>

\* workoutDetails with the Elapsed Time of the segment at position i set to v
WithElapsedTime(workoutDetails, i, v) ==
    Arr([workoutDetails.items EXCEPT
            ![i] = Obj([@.fields EXCEPT !["Elapsed Time"] = v])])

\* the client changes one Elapsed Time of a timeline that was just accepted to a
\* different value and validates again
CallValidateWorkoutDetailsChanged ==
    /\ vpc = "done"
    /\ vcall.fn = "validateWorkoutDetails"
    /\ vmut = 0
    /\ vcall.arg \in Timelines
    /\ ~Threw(vout) /\ vout.valid
    /\ \E i \in 1..Len(vcall.arg.items), v \in ChangedElapsedValues :
        /\ v # Get(vcall.arg.items[i], "Elapsed Time")
        /\ vmut' = i
        /\ vcall' = [fn |-> "validateWorkoutDetails",
                     arg |-> WithElapsedTime(vcall.arg, i, v)]
        /\ vout' = validateWorkoutDetails(WithElapsedTime(vcall.arg, i, v))
    /\ vpc' = "done"
    /\ UNCHANGED <<fvars, lvars, rvars>>

CallValidateUrl ==
    /\ vpc = "idle"
    /\ \E url \in UrlValues, allowedDomains \in AllowedDomainsValues :
        /\ vcall' = [fn |-> "validateUrl", arg |-> url, allowedDomains |-> allowedDomains]
        /\ vout' = validateUrl(url, allowedDomains)
    /\ vpc' = "done"
    /\ UNCHANGED <<vmut, fvars, lvars, rvars>>

CallValidateWorkout ==
    /\ vpc = "idle"
    /\ \E workout \in WorkoutObjects \cup NonObjects :
        /\ vcall' = [fn |-> "validateWorkout", arg |-> workout]
        /\ vout' = validateWorkout(workout)
    /\ vpc' = "done"
    /\ UNCHANGED <<vmut, fvars, lvars, rvars>>

CallValidateVideo ==
    /\ vpc = "idle"
    /\ \E video \in VideoObjects \cup NonObjects :
        /\ vcall' = [fn |-> "validateVideo", arg |-> video]
        /\ vout' = validateVideo(video)
    /\ vpc' = "done"
    /\ UNCHANGED <<vmut, fvars, lvars, rvars>>

CallValidateWorkoutsList ==
    /\ vpc = "idle"
    /\ \E workouts \in NonArrays \cup
                       {Arr(items) : items \in SeqsOf(WorkoutElements, 0, MaxItems)} :
        /\ vcall' = [fn |-> "validateWorkoutsList", arg |-> workouts]
        /\ vout' = validateWorkoutsList(workouts)
    /\ vpc' = "done"
    /\ UNCHANGED <<vmut, fvars, lvars, rvars>>

CallValidateVideosList ==
    /\ vpc = "idle"
    /\ \E videos \in NonArrays \cup
                     {Arr(items) : items \in SeqsOf(VideoElements, 0, MaxItems)} :
        /\ vcall' = [fn |-> "validateVideosList", arg |-> videos]
        /\ vout' = validateVideosList(videos)
    /\ vpc' = "done"
    /\ UNCHANGED <<vmut, fvars, lvars, rvars>>

\* the client is done with the result
ValidatorReturn ==
    /\ vpc = "done"
    /\ vpc' = "idle"
    /\ vcall' = NoCall
    /\ vout' = NoResult
    /\ vmut' = 0
    /\ UNCHANGED <<fvars, lvars, rvars>>

NextValidators ==
    \/ CallValidateSegment
    \/ CallValidateWorkoutDetails
    \/ CallValidateWorkoutDetailsChanged
    \/ CallValidateUrl
    \/ CallValidateWorkout
    \/ CallValidateVideo
    \/ CallValidateWorkoutsList
    \/ CallValidateVideosList
    \/ ValidatorReturn

----------------------------------------------------------------------------
(* JSON.parse, as loadJsonFile and fetchWorkoutDetails call it: the JSON grammar
   for texts without string escapes and without fraction parts (finite numbers
   are integers here, so no input text has a fraction) *)

NegInfinity == [tag |-> "number", kind |-> "-Infinity", n |-> 0]

JsonFail == [ok |-> FALSE]

JsonOk(v, pos) ==
    [ok |-> TRUE, v |-> v, pos |-> pos]

\* the character of s at position i, "" past the end
At(s, i) ==
    IF i \in 1..Len(s) THEN CharAt(s, i) ELSE ""

RECURSIVE SkipWs(_, _)
SkipWs(s, i) ==
    IF IsSpace(At(s, i)) THEN SkipWs(s, i + 1) ELSE i

IsDigit(c) ==
    IndexOf(Digits, c) # 0

\* the run of digits from position i on: its value and the position after it
RECURSIVE ParseDigits(_, _, _)
ParseDigits(s, i, acc) ==
    IF IsDigit(At(s, i))
    THEN ParseDigits(s, i + 1, acc * 10 + (IndexOf(Digits, At(s, i)) - 1))
    ELSE [n |-> acc, pos |-> i]

\* the value of mantissa * 10^exponent as a double: beyond 1e308 it is an infinity
Scaled(negative, mantissa, exponent) ==
    IF mantissa = 0 THEN Num(0)
    ELSE IF exponent > 308 THEN (IF negative THEN NegInfinity ELSE PosInfinity)
    ELSE Num((IF negative THEN -1 ELSE 1) * mantissa * 10^exponent)

\* -? (0 | [1-9][0-9]*) ([eE] +? [0-9]+)?
ParseNumber(s, i) ==
    LET negative == At(s, i) = "-"
        start == IF negative THEN i + 1 ELSE i
        int == IF At(s, start) = "0" THEN [n |-> 0, pos |-> start + 1]
               ELSE ParseDigits(s, start, 0)
        hasExp == At(s, int.pos) \in {"e", "E"}
        expStart == IF At(s, int.pos + 1) = "+" THEN int.pos + 2 ELSE int.pos + 1
        exp == ParseDigits(s, expStart, 0)
    IN IF int.pos = start THEN JsonFail
       ELSE IF ~hasExp THEN JsonOk(Scaled(negative, int.n, 0), int.pos)
       ELSE IF exp.pos = expStart THEN JsonFail
       ELSE JsonOk(Scaled(negative, int.n, exp.n), exp.pos)

\* the position of the closing quote from i on; 0 when there is none before the
\* end, a backslash or a control character
RECURSIVE ScanString(_, _)
ScanString(s, i) ==
    IF i > Len(s) THEN 0
    ELSE IF CharAt(s, i) = "\"" THEN i
    ELSE IF CharAt(s, i) \in {"\\", "\n", "\r", "\t"} THEN 0
    ELSE ScanString(s, i + 1)

\* a string whose opening quote is at position i
ParseString(s, i) ==
    LET close == ScanString(s, i + 1)
    IN IF close = 0 THEN JsonFail
       ELSE JsonOk(Str(IF close = i + 1 THEN "" ELSE SubSeq(s, i + 1, close - 1)),
                   close + 1)

\* the literal lit stands at position i of s
LiteralAt(s, i, lit) ==
    /\ i + Len(lit) - 1 <= Len(s)
    /\ SubSeq(s, i, i + Len(lit) - 1) = lit

RECURSIVE ParseValue(_, _)
RECURSIVE ParseElements(_, _, _)
RECURSIVE ParseMembers(_, _, _)

\* a value from position i0 on, leading whitespace skipped
ParseValue(s, i0) ==
    LET i == SkipWs(s, i0)
        c == At(s, i)
    IN IF LiteralAt(s, i, "null") THEN JsonOk(Null, i + 4)
       ELSE IF LiteralAt(s, i, "true") THEN JsonOk(Bool(TRUE), i + 4)
       ELSE IF LiteralAt(s, i, "false") THEN JsonOk(Bool(FALSE), i + 5)
       ELSE IF c = "\"" THEN ParseString(s, i)
       ELSE IF c = "-" \/ IsDigit(c) THEN ParseNumber(s, i)
       ELSE IF c = "["
       THEN IF At(s, SkipWs(s, i + 1)) = "]"
            THEN JsonOk(Arr(<<>>), SkipWs(s, i + 1) + 1)
            ELSE ParseElements(s, i + 1, <<>>)
       ELSE IF c = "{"
       THEN IF At(s, SkipWs(s, i + 1)) = "}"
            THEN JsonOk(Obj(<<>>), SkipWs(s, i + 1) + 1)
            ELSE ParseMembers(s, i + 1, <<>>)
       ELSE JsonFail

\* the elements of an array from position i on, up to the closing bracket
ParseElements(s, i, acc) ==
    LET r == ParseValue(s, i)
        j == SkipWs(s, r.pos)
    IN IF ~r.ok THEN JsonFail
       ELSE IF At(s, j) = "," THEN ParseElements(s, j + 1, Append(acc, r.v))
       ELSE IF At(s, j) = "]" THEN JsonOk(Arr(Append(acc, r.v)), j + 1)
       ELSE JsonFail

\* the members of an object from position i on, up to the closing brace; a
\* repeated key keeps its last value
ParseMembers(s, i, acc) ==
    LET k == SkipWs(s, i)
        key == ParseString(s, k)
        colon == SkipWs(s, key.pos)
        r == ParseValue(s, colon + 1)
        j == SkipWs(s, r.pos)
        fields == (key.v.s :> r.v) @@ acc
    IN IF At(s, k) # "\"" THEN JsonFail
       ELSE IF ~key.ok THEN JsonFail
       ELSE IF At(s, colon) # ":" THEN JsonFail
       ELSE IF ~r.ok THEN JsonFail
       ELSE IF At(s, j) = "," THEN ParseMembers(s, j + 1, fields)
       ELSE IF At(s, j) = "}" THEN JsonOk(Obj(fields), j + 1)
       ELSE JsonFail

\* JSON.parse(text): the value, or [ok |-> FALSE] for the SyntaxError it throws
JSONParse(text) ==
    LET r == ParseValue(text, 1)
    IN IF r.ok /\ SkipWs(text, r.pos) > Len(text)
       THEN [ok |-> TRUE, v |-> r.v]
       ELSE JsonFail

----------------------------------------------------------------------------
(* dataLoader.ts: loadJsonFile, loadWorkoutDetails, the checks of
   fetchWorkoutDetails, getCurrentSegment *)

\* a path on disk: nothing there, a directory, a file that cannot be read, or a
\* file with its text
MissingFile == [kind |-> "missing"]
Directory == [kind |-> "directory"]
UnreadableFile == [kind |-> "unreadable"]
TextFile(content) == [kind |-> "file", content |-> content]

\* throw new DataLoadError(message, ...); index is the position the message names,
\* -1 when it names none
DataLoadError(message, index) ==
    [thrown |-> "DataLoadError", message |-> message, index |-> index]

Returned(v) ==
    [returned |-> v]

loadJsonFile(file) ==
    IF file.kind = "missing" THEN DataLoadError("File not found", -1)
    ELSE IF file.kind # "file" /\ file.kind # "unreadable"
    THEN DataLoadError("Path is not a file", -1)
    ELSE IF file.kind = "unreadable" THEN DataLoadError("Failed to read file", -1)
    ELSE IF Trim(file.content) = "" THEN DataLoadError("File is empty", -1)
    ELSE IF ~JSONParse(file.content).ok THEN DataLoadError("Invalid JSON", -1)
    ELSE Returned(JSONParse(file.content).v)

\* a < b and a <= b on numbers, the non-finite ones included
JsLess(a, b) ==
    IF a.kind = "NaN" \/ b.kind = "NaN" THEN FALSE
    ELSE IF a.kind = "finite" /\ b.kind = "finite" THEN a.n < b.n
    ELSE IF a.kind = b.kind THEN FALSE
    ELSE a.kind = "-Infinity" \/ b.kind = "Infinity"

JsLessEq(a, b) ==
    IF a.kind = "NaN" \/ b.kind = "NaN" THEN FALSE
    ELSE IF a.kind = "finite" /\ b.kind = "finite" THEN a.n <= b.n
    ELSE IF a.kind = b.kind THEN TRUE
    ELSE a.kind = "-Infinity" \/ b.kind = "Infinity"

\* typeof v !== "number" || !Number.isFinite(v)
NotFiniteNumber(v) ==
    TypeOf(v) # "number" \/ ~IsFinite(v)

\* the checks loadWorkoutDetails makes on the element at index i, in order: the
\* error of the first that fails, or NoLoadError
NoLoadError == [thrown |-> "none"]

LoadSegmentCheck(item, i) ==
    IF TypeOf(item) # "object" \/ item = Null
    THEN DataLoadError("is not an object", i)
    ELSE IF NotFiniteNumber(Get(item, "Time"))
    THEN DataLoadError("has invalid 'Time' field", i)
    ELSE IF Get(item, "Time").n <= 0
    THEN DataLoadError("has invalid 'Time' value", i)
    ELSE IF TypeOf(Get(item, "Activity")) # "string"
    THEN DataLoadError("has invalid 'Activity' field", i)
    ELSE IF NotFiniteNumber(Get(item, "Resistance"))
    THEN DataLoadError("has invalid 'Resistance' field", i)
    ELSE IF Get(item, "Resistance").n < 0 \/ Get(item, "Resistance").n > 20
    THEN DataLoadError("has invalid 'Resistance' value", i)
    ELSE IF NotFiniteNumber(Get(item, "Cadence"))
    THEN DataLoadError("has invalid 'Cadence' field", i)
    ELSE IF Get(item, "Cadence").n < 0 \/ Get(item, "Cadence").n > 150
    THEN DataLoadError("has invalid 'Cadence' value", i)
    ELSE IF TypeOf(Get(item, "Stroke instruction")) # "string"
    THEN DataLoadError("has invalid 'Stroke instruction' field", i)
    ELSE IF NotFiniteNumber(Get(item, "Elapsed Time"))
    THEN DataLoadError("has invalid 'Elapsed Time' field", i)
    ELSE IF Get(item, "Elapsed Time").n < 0
    THEN DataLoadError("has invalid 'Elapsed Time' value", i)
    ELSE NoLoadError

\* a slip: Elapsed Time is filled from Time
TypedSegmentElapsedFromTime(segment) ==
    Segment(Get(segment, "Time"), Get(segment, "Activity"), Get(segment, "Resistance"),
            Get(segment, "Cadence"), Get(segment, "Stroke instruction"),
            Get(segment, "Time"))

\* segments.push({ Time: segment.Time, ..., "Elapsed Time": segment["Elapsed Time"] }):
\* the six fields and nothing else
TypedSegment(segment) ==
    Segment(Get(segment, "Time"), Get(segment, "Activity"), Get(segment, "Resistance"),
            Get(segment, "Cadence"), Get(segment, "Stroke instruction"),
            Get(segment, "Elapsed Time"))

\* for (let i = 0; i < data.length; i++) { ... } of loadWorkoutDetails; i is
\* 1-based here and messages name i - 1
RECURSIVE LoadSegmentsLoop(_, _, _)
LoadSegmentsLoop(items, i, segments) ==
    IF i > Len(items) THEN Returned(Arr(segments))
    ELSE IF LoadSegmentCheck(items[i], i - 1) # NoLoadError
    THEN LoadSegmentCheck(items[i], i - 1)
    ELSE LoadSegmentsLoop(items, i + 1, Append(segments, TypedSegment(items[i])))

loadWorkoutDetails(file) ==
    LET data == loadJsonFile(file)
    IN IF Threw(data) THEN data
       ELSE IF ~IsArray(data.returned)
       THEN DataLoadError("Expected array but got " \o TypeOf(data.returned), -1)
       ELSE IF Len(data.returned.items) = 0
       THEN DataLoadError("Workout details array is empty", -1)
       ELSE LoadSegmentsLoop(data.returned.items, 1, <<>>)

\* the checks fetchWorkoutDetails makes on the element at index i
FetchSegmentCheck(item, i) ==
    IF TypeOf(item) # "object" \/ item = Null
    THEN DataLoadError("is not an object", i)
    ELSE IF TypeOf(Get(item, "Time")) # "number" \/ JsLessEq(Get(item, "Time"), Num(0))
    THEN DataLoadError("has invalid 'Time' field", i)
    ELSE IF TypeOf(Get(item, "Activity")) # "string"
    THEN DataLoadError("has invalid 'Activity' field", i)
    ELSE IF TypeOf(Get(item, "Resistance")) # "number"
    THEN DataLoadError("has invalid 'Resistance' field", i)
    ELSE IF TypeOf(Get(item, "Cadence")) # "number"
    THEN DataLoadError("has invalid 'Cadence' field", i)
    ELSE IF TypeOf(Get(item, "Stroke instruction")) # "string"
    THEN DataLoadError("has invalid 'Stroke instruction' field", i)
    ELSE IF TypeOf(Get(item, "Elapsed Time")) # "number"
    THEN DataLoadError("has invalid 'Elapsed Time' field", i)
    ELSE NoLoadError

\* for (let i = 0; i < data.length; i++) { ... } of fetchWorkoutDetails
RECURSIVE FetchSegmentsLoop(_, _, _)
FetchSegmentsLoop(items, i, segments) ==
    IF i > Len(items) THEN Returned(Arr(segments))
    ELSE IF FetchSegmentCheck(items[i], i - 1) # NoLoadError
    THEN FetchSegmentCheck(items[i], i - 1)
    ELSE FetchSegmentsLoop(items, i + 1, Append(segments, TypedSegment(items[i])))

\* fetchWorkoutDetails from the point where `await fetchWithRetry(url, config)`
\* has given it content
ParseFetchedDetails(content) ==
    IF ~JSONParse(content).ok THEN DataLoadError("Invalid JSON from URL", -1)
    ELSE IF ~IsArray(JSONParse(content).v)
    THEN DataLoadError("Expected array but got " \o TypeOf(JSONParse(content).v), -1)
    ELSE FetchSegmentsLoop(JSONParse(content).v.items, 1, <<>>)

\* a slip: the scan stops only at a segment that ends strictly later
ReachedStrictly(elapsedMinutes, segment) ==
    JsLess(elapsedMinutes, Get(segment, "Elapsed Time"))

\* elapsedMinutes <= segment["Elapsed Time"]
Reached(elapsedMinutes, segment) ==
    JsLessEq(elapsedMinutes, Get(segment, "Elapsed Time"))

\* for (const segment of segments) { if (...) return segment; } return null;
\* `at` is the (1-based) position of the object returned, 0 for null
RECURSIVE ScanSegments(_, _, _)
ScanSegments(segments, elapsedMinutes, i) ==
    IF i > Len(segments) THEN [returned |-> Null, at |-> 0]
    ELSE IF Reached(elapsedMinutes, segments[i])
    THEN [returned |-> segments[i], at |-> i]
    ELSE ScanSegments(segments, elapsedMinutes, i + 1)

\* a slip: before the start of the workout there is no current segment
getCurrentSegmentNullBeforeStart(segments, elapsedMinutes) ==
    IF Len(segments) = 0 THEN [returned |-> Null, at |-> 0]
    ELSE IF JsLess(elapsedMinutes, Num(0)) THEN [returned |-> Null, at |-> 0]
    ELSE ScanSegments(segments, elapsedMinutes, 1)

\* segments is the array's sequence of segments, elapsedMinutes a number
getCurrentSegment(segments, elapsedMinutes) ==
    IF Len(segments) = 0 THEN [returned |-> Null, at |-> 0]
    ELSE IF JsLess(elapsedMinutes, Num(0)) THEN [returned |-> segments[1], at |-> 1]
    ELSE ScanSegments(segments, elapsedMinutes, 1)

----------------------------------------------------------------------------
(* Inputs handed to the loader: data files and typed timelines *)

\* the order in which a data file lists the keys of an object
KeyOrder ==
    <<"Title", "Subtitle", "Image", "Video", "Workout_URL", "Time", "Activity",
      "Resistance", "Cadence", "Stroke instruction", "Elapsed Time", "Notes">>

RECURSIVE JSONText(_)
RECURSIVE ElementsText(_, _)
RECURSIVE MembersText(_, _, _)

\* a JSON text that denotes v; 1e999 is how a file writes a number beyond the
\* doubles
JSONText(v) ==
    IF v.tag = "null" THEN "null"
    ELSE IF v.tag = "boolean" THEN (IF v.b THEN "true" ELSE "false")
    ELSE IF v.tag = "number"
    THEN (IF v.kind = "finite" THEN ToString(v.n)
          ELSE IF v.kind = "-Infinity" THEN "-1e999" ELSE "1e999")
    ELSE IF v.tag = "string" THEN "\"" \o v.s \o "\""
    ELSE IF v.tag = "array" THEN "[" \o ElementsText(v.items, 1) \o "]"
    ELSE "{" \o MembersText(v.fields, 1, "") \o "}"

ElementsText(items, i) ==
    IF i > Len(items) THEN ""
    ELSE (IF i > 1 THEN ", " ELSE "") \o JSONText(items[i]) \o ElementsText(items, i + 1)

MembersText(fields, k, sep) ==
    IF k > Len(KeyOrder) THEN ""
    ELSE IF KeyOrder[k] \notin DOMAIN fields THEN MembersText(fields, k + 1, sep)
    ELSE sep \o "\"" \o KeyOrder[k] \o "\": " \o JSONText(fields[KeyOrder[k]])
             \o MembersText(fields, k + 1, ",\n  ")

\* the object o without / with a property
Without(o, key) ==
    Obj([k \in DOMAIN o.fields \ {key} |-> o.fields[k]])

With(o, key, v) ==
    Obj((key :> v) @@ o.fields)

\* first segments that loadWorkoutDetails takes: in the Validator's ranges, at the
\* Loader's looser bounds, with a blank Activity, with a property of their own
LoadableFirstSegments ==
    {Segment(Num(5), Str(a), Num(r), Num(c), Str(""), Num(5)) :
        a \in {"Warm-up", " "}, r \in {0, 1, 20}, c \in {0, 29, 30, 150}}
        \cup {With(GoodSegment(5, "Warm-up", 5), "Notes", Str("easy"))}

\* timelines with exact running sums whose first segment is one of these
LoadableTimelines ==
    {Arr(<<s>>) : s \in LoadableFirstSegments}
        \cup {Arr(<<s, GoodSegment(116, "Cool-down", 121)>>) : s \in LoadableFirstSegments}

\* elements a JSON text can denote
JsonElementValues ==
    {Null, Num(7), Str("x"), Arr(<<>>), EmptyObject,
     GoodSegment(5, "Warm-up", 5), GoodSegment(5, "Cool-down", 10),
     GoodSegment(100, "Sprint", 130),
     Without(GoodSegment(5, "Warm-up", 5), "Stroke instruction"),
     Segment(PosInfinity, Str("Warm-up"), Num(5), Num(90), Str(""), Num(5)),
     Segment(Num(5), Str("Warm-up"), Num(21), Num(151), Str(""), Num(5)),
     Segment(Num(0), Str("Warm-up"), Num(5), Num(90), Str(""), Num(0)),
     Segment(Num(5), Str(""), Num(0), Num(29), Str(""), Num(-1))}

JsonNonArrays == {Null, Num(0), Str("[]"), EmptyObject}

DetailsFileValues ==
    Timelines \cup LoadableTimelines \cup JsonNonArrays
        \cup {Arr(items) : items \in SeqsOf(JsonElementValues, 0, MaxItems)}

\* texts that are blank, that are not JSON, and one laid out by hand
OtherTexts ==
    {"", "  \n", "not json", "[{\"Time\": 5,", "[1 2]",
     " [ {\"Elapsed Time\":5,\"Time\":5,\"Activity\":\"Warm-up\",\"Resistance\":5,\n"
        \o "\"Cadence\":90,\"Stroke instruction\":\"\"} ]\n"}

DetailsFiles ==
    {MissingFile, Directory, UnreadableFile}
        \cup {TextFile(text) : text \in OtherTexts}
        \cup {TextFile(JSONText(v)) : v \in DetailsFileValues}

\* Elapsed Time values of the segments handed to getCurrentSegment, and the times
\* asked about
SegmentEnds == {-5, 0, 5, 10, 125, 130}
ElapsedMinutesValues == {-6, -1, 0, 4, 5, 7, 10, 11, 15, 127, 131}

\* typed timelines, in any order of their Elapsed Time values
TypedTimelines ==
    {[i \in 1..Len(ends) |-> GoodSegment(5, "Intervals", ends[i])] :
        ends \in SeqsOf(SegmentEnds, 0, MaxSegs)}

----------------------------------------------------------------------------
(* The loader as called by a client *)

LoaderIdle ==
    /\ lpc = "idle"
    /\ lcall = NoCall
    /\ lout = NoResult
    /\ lval = NoResult

CallLoadJsonFile ==
    /\ lpc = "idle"
    /\ \E file \in DetailsFiles :
        /\ lcall' = [fn |-> "loadJsonFile", file |-> file]
        /\ lout' = loadJsonFile(file)
    /\ lpc' = "done"
    /\ UNCHANGED <<lval, vvars, fvars, rvars>>

CallLoadWorkoutDetails ==
    /\ lpc = "idle"
    /\ \E file \in DetailsFiles :
        /\ lcall' = [fn |-> "loadWorkoutDetails", file |-> file]
        /\ lout' = loadWorkoutDetails(file)
    /\ lpc' = "done"
    /\ UNCHANGED <<lval, vvars, fvars, rvars>>

\* the client hands what loadJsonFile or loadWorkoutDetails returned to
\* validateWorkoutDetails
ValidateLoaded ==
    /\ lpc = "done"
    /\ lcall.fn \in {"loadJsonFile", "loadWorkoutDetails"}
    /\ ~Threw(lout)
    /\ lval' = validateWorkoutDetails(lout.returned)
    /\ lpc' = "validated"
    /\ UNCHANGED <<lcall, lout, vvars, fvars, rvars>>

\* the client, having validated the parsed data of a file, loads the file with
\* loadWorkoutDetails
LoadValidated ==
    /\ lpc = "validated"
    /\ lcall.fn = "loadJsonFile"
    /\ lcall' = [fn |-> "loadWorkoutDetails", file |-> lcall.file]
    /\ lout' = loadWorkoutDetails(lcall.file)
    /\ lpc' = "reloaded"
    /\ UNCHANGED <<lval, vvars, fvars, rvars>>

CallGetCurrentSegment ==
    /\ lpc = "idle"
    /\ \E segments \in TypedTimelines, elapsedMinutes \in ElapsedMinutesValues :
        /\ lcall' = [fn |-> "getCurrentSegment", segments |-> segments,
                     elapsedMinutes |-> elapsedMinutes]
        /\ lout' = getCurrentSegment(segments, Num(elapsedMinutes))
    /\ lpc' = "done"
    /\ UNCHANGED <<lval, vvars, fvars, rvars>>

\* the client is done with the result
LoaderReturn ==
    /\ lpc \in {"done", "validated", "reloaded"}
    /\ lpc' = "idle"
    /\ lcall' = NoCall
    /\ lout' = NoResult
    /\ lval' = NoResult
    /\ UNCHANGED <<vvars, fvars, rvars>>

NextLoader ==
    \/ CallLoadJsonFile
    \/ CallLoadWorkoutDetails
    \/ ValidateLoaded
    \/ LoadValidated
    \/ CallGetCurrentSegment
    \/ LoaderReturn

----------------------------------------------------------------------------
(* dataLoader.ts: fetchWithRetry *)

DEFAULT_FETCH_CONFIG ==
    [timeoutMs |-> 30000, retries |-> 3, retryDelayMs |-> 1000]

\* const nonRetriable = [400, 401, 403, 404, 405, 422]
nonRetriable == {400, 401, 403, 404, 405, 422}

\* largest retries a caller passes
MaxRetries == 3
\* how often the network lets a latency interval pass within one request
MaxLatencySteps == 1
\* how many timeoutMs-long intervals a response body may stall
MaxStalls == 2

\* the time a network event may take, ms
Latencies == {250}

HttpUrls == {"https://example.com/w.json", "http://example.com/w.json"}
OtherUrls == {"", "not a url", "https://", "ftp://example.com/w.json", "mailto:a@example.com"}
FetchUrls == HttpUrls \cup OtherUrls

\* the config argument: absent, retries alone, or all three fields
FetchConfigs ==
    {<<>>} \cup {[retries |-> r] : r \in 0..MaxRetries}
           \cup {[timeoutMs |-> 500, retries |-> 1, retryDelayMs |-> 200]}

\* the statuses the server answers with
Statuses == nonRetriable \cup {200, 204, 500, 503}
\* the config a caller of fetchWorkoutDetails passes
DetailsFetchConfigs == {[retries |-> r] : r \in {0, 1}}

\* the texts the server sends as a body
Bodies ==
    {"[]", "not json", JSONText(Arr(<<GoodSegment(5, "Warm-up", 5)>>))}

\* { ...DEFAULT_FETCH_CONFIG, ...config }
MergeConfig(config) ==
    [k \in DOMAIN DEFAULT_FETCH_CONFIG |->
        IF k \in DOMAIN config THEN config[k] ELSE DEFAULT_FETCH_CONFIG[k]]

\* new NetworkError(message, url, statusCode, cause)
NetworkError(message, statusCode, cause) ==
    [name |-> "NetworkError", message |-> message, statusCode |-> statusCode,
     cause |-> cause]

\* what fetch() and response.text() reject with
AbortError == [name |-> "AbortError"]
FetchFailed == [name |-> "TypeError"]

\* response.ok
ResponseOk(status) ==
    status \in 200..299

\* a slip: 404 is taken for a retriable status
IsNonRetriableBut404(error) ==
    /\ error.name = "NetworkError"
    /\ error.statusCode # Undefined
    /\ error.statusCode.n \in nonRetriable \ {404}

\* error instanceof NetworkError && error.statusCode
\*     && nonRetriable.includes(error.statusCode)
IsNonRetriable(error) ==
    /\ error.name = "NetworkError"
    /\ error.statusCode # Undefined
    /\ error.statusCode.n # 0
    /\ error.statusCode.n \in nonRetriable

\* a slip: the delay grows linearly
BackoffDelayLinear(retryDelayMs, k) ==
    retryDelayMs * (k + 1)

\* retryDelayMs * Math.pow(2, attempt)
BackoffDelay(retryDelayMs, k) ==
    retryDelayMs * 2^k

\* a slip: one retry too many
MayRetryOffByOne(k, retries) ==
    k <= retries

\* if (attempt < retries): another attempt follows the failure of attempt k
MayRetry(k, retries) ==
    k < retries

\* a slip: the protocol is not looked at
IsSupportedProtocolAny(protocol) ==
    TRUE

\* ["http:", "https:"].includes(parsedUrl.protocol)
IsSupportedProtocol(protocol) ==
    protocol \in {"http:", "https:"}

NoConfig == [none |-> TRUE]
NoFrame == [state |-> "none"]
NoRequest == [phase |-> "none"]
NoError == [name |-> "none"]

\* the observation log: requests issued, when the latest one was issued, when the
\* latest attempt failed, the time between that failure and the next request, the
\* backoff delays asked for, the latest response status, the failure of the latest
\* failed attempt, the failed attempts, and which watchdog aborted which request
NoHistory ==
    [requests |-> 0, issuedAt |-> 0, failedAt |-> 0, gap |-> 0, waits |-> <<>>,
     lastStatus |-> 0, lastFailure |-> NoError, failures |-> 0, aborts |-> {}]

FetchIdle ==
    /\ fcfg = NoConfig
    /\ fpc = "idle"
    /\ attempt = 0
    /\ now = 0
    /\ timers = {}
    /\ net = NoRequest
    /\ lastError = NoError
    /\ fout = NoResult
    /\ hist = NoHistory
    /\ fwd = NoFrame

Watchdogs(k) ==
    {t \in timers : t.kind = "watchdog" /\ t.attempt = k}

\* a slip: a timer runs its callback without waiting
TimerDueAtOnce(t) ==
    TRUE

\* setTimeout(callback, ms): the callback runs once ms have passed
TimerDue(t) ==
    t.at <= now

\* the loop body up to `await fetch(...)` for attempt k: a new controller, its
\* watchdog, the request; armed are the timers left armed, h the log so far
StartAttempt(cfg, k, armed, h) ==
    /\ attempt' = k
    /\ fpc' = "fetching"
    /\ timers' = armed \cup {[kind |-> "watchdog", attempt |-> k, at |-> now + cfg.timeoutMs]}
    /\ net' = [phase |-> "sent", attempt |-> k, startedAt |-> now, lat |-> 0, stalls |-> 0]
    /\ hist' = [h EXCEPT !.requests = @ + 1, !.issuedAt = now,
                         !.gap = IF h.requests = 0 THEN 0 ELSE now - h.failedAt]

\* throw before the loop
ThrowEarly(error) ==
    /\ fpc' = "thrown"
    /\ fout' = error
    /\ UNCHANGED <<attempt, timers, net, lastError, hist>>

\* catch (error) { ... } of attempt `attempt`, then the loop's next test and the
\* throw after the loop; armed and h as above
Catch(error, armed, h) ==
    LET failed == [h EXCEPT !.failedAt = now, !.lastFailure = error, !.failures = @ + 1]
        delay == BackoffDelay(fcfg.retryDelayMs, attempt)
    IN /\ lastError' = error
       /\ net' = NoRequest
       /\ IF IsNonRetriable(error)
          THEN /\ fpc' = "thrown"
               /\ fout' = error
               /\ timers' = armed
               /\ hist' = failed
               /\ UNCHANGED attempt
          ELSE IF MayRetry(attempt, fcfg.retries)
          THEN /\ fpc' = "backoff"
               /\ timers' = armed \cup {[kind |-> "backoff", attempt |-> attempt, at |-> now + delay]}
               /\ hist' = [failed EXCEPT !.waits = Append(@, delay)]
               /\ UNCHANGED <<attempt, fout>>
          ELSE /\ fpc' = "thrown"
               /\ attempt' = attempt + 1
               /\ fout' = NetworkError("Failed after attempts", Undefined, error)
               /\ timers' = armed
               /\ hist' = failed

\* fetchWithRetry(url, config) up to its first await
EnterFetchWithRetry(url, config) ==
    LET cfg == MergeConfig(config) @@ [url |-> url]
        parsedUrl == ParseURL(url)
    IN /\ fcfg' = cfg
       /\ IF ~parsedUrl.ok
          THEN ThrowEarly(NetworkError("Invalid URL format", Undefined, Undefined))
          ELSE IF ~IsSupportedProtocol(parsedUrl.protocol)
          THEN ThrowEarly(NetworkError("Unsupported protocol", Undefined, Undefined))
          ELSE StartAttempt(cfg, 0, {}, hist) /\ UNCHANGED <<lastError, fout>>

\* a client calls fetchWithRetry
FetchCall ==
    /\ fpc = "idle"
    /\ \E url \in FetchUrls, config \in FetchConfigs :
        EnterFetchWithRetry(url, config)
    /\ UNCHANGED <<now, fwd, vvars, lvars, rvars>>

\* a client calls fetchWorkoutDetails, which calls fetchWithRetry and awaits it
FetchWorkoutDetailsCall ==
    /\ fpc = "idle"
    /\ \E url \in FetchUrls, config \in DetailsFetchConfigs :
        EnterFetchWithRetry(url, config)
    /\ fwd' = [state |-> "awaiting"]
    /\ UNCHANGED <<now, vvars, lvars, rvars>>

\* fetchWithRetry has settled: fetchWorkoutDetails resumes with the content, or
\* with the NetworkError, which it lets through
FetchWorkoutDetailsResumes ==
    /\ fwd.state = "awaiting"
    /\ fpc \in {"returned", "thrown"}
    /\ fwd' = IF fpc = "thrown" THEN [state |-> "thrown", error |-> fout]
              ELSE IF Threw(ParseFetchedDetails(fout.returned))
              THEN [state |-> "thrown", error |-> ParseFetchedDetails(fout.returned)]
              ELSE [state |-> "returned",
                    details |-> ParseFetchedDetails(fout.returned).returned]
    /\ UNCHANGED <<fcfg, fpc, attempt, now, timers, net, lastError, fout, hist,
                   vvars, lvars, rvars>>

\* fetch() resolves with the response head; clearTimeout(timeoutId); then either
\* the throw for !response.ok, caught below, or `await response.text()`
ResponseArrives ==
    /\ fpc = "fetching"
    /\ net.phase = "sent"
    /\ \E status \in Statuses :
        LET armed == timers \ Watchdogs(attempt)
            h == [hist EXCEPT !.lastStatus = status]
        IN IF ResponseOk(status)
           THEN /\ fpc' = "reading"
                /\ net' = [net EXCEPT !.phase = "body"]
                /\ timers' = armed
                /\ hist' = h
                /\ UNCHANGED <<attempt, lastError, fout>>
           ELSE Catch(NetworkError("HTTP error", Num(status), Undefined), armed, h)
    /\ UNCHANGED <<fcfg, now, fwd, vvars, lvars, rvars>>

\* fetch() rejects (connection refused, reset, DNS); finally { clearTimeout }
RequestFails ==
    /\ fpc = "fetching"
    /\ net.phase = "sent"
    /\ Catch(FetchFailed, timers \ Watchdogs(attempt), hist)
    /\ UNCHANGED <<fcfg, now, fwd, vvars, lvars, rvars>>

\* a watchdog comes due: controller.abort() rejects what that controller's
\* request is awaiting; finally { clearTimeout }
WatchdogFires ==
    /\ \E t \in timers :
        /\ t.kind = "watchdog"
        /\ TimerDue(t)
        /\ IF net.phase # "none" /\ net.attempt = t.attempt
           THEN Catch(AbortError, timers \ ({t} \cup Watchdogs(attempt)),
                      [hist EXCEPT !.aborts = @ \cup {<<t.attempt, net.attempt>>}])
           ELSE /\ timers' = timers \ {t}
                /\ UNCHANGED <<fpc, attempt, net, lastError, fout, hist>>
    /\ UNCHANGED <<fcfg, now, fwd, vvars, lvars, rvars>>

\* response.text() resolves: return
BodyCompletes ==
    /\ fpc = "reading"
    /\ \E body \in Bodies :
        fout' = [returned |-> body]
    /\ fpc' = "returned"
    /\ net' = NoRequest
    /\ UNCHANGED <<fcfg, attempt, now, timers, lastError, hist, fwd, vvars, lvars, rvars>>

\* response.text() rejects (the connection drops while the body is read);
\* finally { clearTimeout }
BodyFails ==
    /\ fpc = "reading"
    /\ Catch(FetchFailed, timers \ Watchdogs(attempt), hist)
    /\ UNCHANGED <<fcfg, now, fwd, vvars, lvars, rvars>>

\* the backoff timer comes due: attempt++ and the next attempt starts
BackoffTimerFires ==
    /\ fpc = "backoff"
    /\ \E t \in timers :
        /\ t.kind = "backoff"
        /\ TimerDue(t)
        /\ StartAttempt(fcfg, attempt + 1, timers \ {t}, hist)
    /\ UNCHANGED <<fcfg, now, lastError, fout, fwd, vvars, lvars, rvars>>

\* the intervals the clock may advance by: to an armed timer's deadline, by a
\* network latency, or -- with no timer armed -- by another timeoutMs of waiting
TimeSteps ==
    {t.at - now : t \in timers}
        \cup (IF net.phase # "none" /\ net.lat < MaxLatencySteps THEN Latencies ELSE {})
        \cup (IF timers = {} /\ net.phase # "none" /\ net.stalls < MaxStalls
              THEN {fcfg.timeoutMs} ELSE {})

\* time passes while the call is suspended; a due timer fires before it moves on
AdvanceTime ==
    /\ fpc \in {"fetching", "reading", "backoff"}
    /\ \E d \in TimeSteps :
        /\ d > 0
        /\ \A t \in timers : t.at >= now + d
        /\ now' = now + d
        /\ net' = IF net.phase = "none" THEN net
                  ELSE IF d \in Latencies /\ net.lat < MaxLatencySteps
                  THEN [net EXCEPT !.lat = @ + 1]
                  ELSE IF timers = {} THEN [net EXCEPT !.stalls = @ + 1]
                  ELSE net
    /\ UNCHANGED <<fcfg, fpc, attempt, timers, lastError, fout, hist, fwd, vvars, lvars, rvars>>

NextFetch ==
    \/ FetchCall
    \/ FetchWorkoutDetailsCall
    \/ FetchWorkoutDetailsResumes
    \/ ResponseArrives
    \/ RequestFails
    \/ WatchdogFires
    \/ BodyCompletes
    \/ BodyFails
    \/ BackoffTimerFires
    \/ AdvanceTime

----------------------------------------------------------------------------
(* validate-data.ts: validateFile, printSummary, main *)

\* the fixed list of main: workouts.json, videos.json, then workoutDetailsFiles
ReportFiles ==
    <<[path |-> "workouts.json", validator |-> "validateWorkoutsList"],
      [path |-> "videos.json", validator |-> "validateVideosList"],
      [path |-> "workoutdetails/30_Minute_Workout.json",
       validator |-> "validateWorkoutDetails"],
      [path |-> "workoutdetails/Greek_City_45_Min.json",
       validator |-> "validateWorkoutDetails"],
      [path |-> "workoutdetails/10_Minute_High_Intensity.json",
       validator |-> "validateWorkoutDetails"],
      [path |-> "workoutdetails/test.json", validator |-> "validateWorkoutDetails"]>>

\* validator(data)
ApplyValidator(validator, data) ==
    IF validator = "validateWorkoutsList" THEN validateWorkoutsList(data)
    ELSE IF validator = "validateVideosList" THEN validateVideosList(data)
    ELSE validateWorkoutDetails(data)

\* the summary of the catch block
CaughtSummary(path, message) ==
    [file |-> path, valid |-> FALSE, errorCount |-> 1, warningCount |-> 0,
     errors |-> <<message>>, warnings |-> <<>>]

\* the summary of a file that was read: validator(data) and what is made of it;
\* the name of the error stands for error.message
ValidatedSummary(path, validator, value) ==
    CHOOSE summary \in
        {IF Threw(result)
         THEN CaughtSummary(path, "Unexpected error: " \o result.thrown)
         ELSE [file |-> path, valid |-> result.valid,
               errorCount |-> Len(result.errors),
               warningCount |-> Len(result.warnings),
               errors |-> result.errors, warnings |-> result.warnings] :
         result \in {ApplyValidator(validator, value)}} : TRUE

validateFile(path, file, validator) ==
    CHOOSE summary \in
        {IF Threw(data) THEN CaughtSummary(path, "Load error: " \o data.message)
         ELSE ValidatedSummary(path, validator, data.returned) :
         data \in {loadJsonFile(file)}} : TRUE

\* what printSummary writes for a summary
SummaryLines(summary) ==
    [file |-> summary.file, status |-> IF summary.valid THEN "VALID" ELSE "INVALID",
     errors |-> summary.errors, warnings |-> summary.warnings]

\* summaries.filter((s) => !s.valid).length
InvalidFiles(list) ==
    Cardinality({i \in 1..Len(list) : ~list[i].valid})

\* a slip: one invalid file is let through
ExitCodeForMoreThanOne(invalidFiles) ==
    IF invalidFiles > 1 THEN 1 ELSE 0

\* invalidFiles > 0 ? 1 : 0
ExitCodeFor(invalidFiles) ==
    IF invalidFiles > 0 THEN 1 ELSE 0

\* what may be at the path of workouts.json, of videos.json and of a workout
\* details file
WorkoutsFileStates ==
    {MissingFile,
     TextFile(JSONText(Arr(<<Obj([Title |-> Str("A"),
                                  Image |-> Str("https://s3.amazonaws.com/i.png"),
                                  Workout_URL |-> Str("https://github.com/u/r/w.json")])>>)))}

VideosFileStates ==
    {TextFile(JSONText(Arr(<<Obj([Title |-> Str("A"), Subtitle |-> Str(""),
                                  Image |-> Str("http://github.com/i.png"),
                                  Video |-> Str("https://github.com/v")])>>))),
     TextFile(JSONText(Arr(<<Obj([Title |-> Str("A"), Subtitle |-> Str(""),
                                  Image |-> Str("https://github.com/i.png"),
                                  Video |-> Str("https://s3.amazonaws.com/v.mp4")])>>)))}

DetailsFileStates ==
    {TextFile("[null]"),
     TextFile(JSONText(Arr(<<GoodSegment(5, "Warm-up", 5), GoodSegment(5, "Cool-down", 10)>>))),
     TextFile(JSONText(Arr(<<GoodSegment(5, "Warm-up", 5), GoodSegment(5, "Sprint", 11)>>)))}

\* the states of the disk: a file state for each path of the list
Disks ==
    {<<w, v>> \o d : w \in WorkoutsFileStates, v \in VideosFileStates,
                     d \in [1..(Len(ReportFiles) - 2) -> DetailsFileStates]}

ReporterIdle ==
    /\ rpc = "start"
    /\ rfs = <<>>
    /\ summaries = <<>>
    /\ printed = <<>>
    /\ exitCode = -1

\* main() starts and writes the report's heading; what is on disk is found
MainStarts ==
    /\ rpc = "start"
    /\ \E disk \in Disks :
        rfs' = disk
    /\ rpc' = "checking"
    /\ printed' = <<[heading |-> "Cycling Data Validation Report"]>>
    /\ UNCHANGED <<summaries, exitCode, vvars, fvars, lvars>>

\* summaries.push(validateFile(path, validator)) for the next file of the list
ValidateNextFile ==
    /\ rpc = "checking"
    /\ LET i == Len(summaries) + 1
       IN /\ summaries' = Append(summaries,
                 validateFile(ReportFiles[i].path, rfs[i], ReportFiles[i].validator))
          /\ rpc' = IF i = Len(ReportFiles) THEN "printing" ELSE "checking"
    /\ UNCHANGED <<rfs, printed, exitCode, vvars, fvars, lvars>>

\* summaries.forEach(printSummary), one summary at a time
PrintNextSummary ==
    /\ rpc = "printing"
    /\ Len(printed) - 1 < Len(summaries)
    /\ printed' = Append(printed, SummaryLines(summaries[Len(printed)]))
    /\ UNCHANGED <<rpc, rfs, summaries, exitCode, vvars, fvars, lvars>>

\* the overall summary, then process.exit(invalidFiles > 0 ? 1 : 0)
PrintOverallAndExit ==
    /\ rpc = "printing"
    /\ Len(printed) - 1 = Len(summaries)
    /\ printed' = Append(printed, [overall |-> "OVERALL SUMMARY",
                                   checked |-> Len(summaries),
                                   invalid |-> InvalidFiles(summaries)])
    /\ exitCode' = ExitCodeFor(InvalidFiles(summaries))
    /\ rpc' = "exited"
    /\ UNCHANGED <<rfs, summaries, vvars, fvars, lvars>>

NextReporter ==
    \/ MainStarts
    \/ ValidateNextFile
    \/ PrintNextSummary
    \/ PrintOverallAndExit

----------------------------------------------------------------------------
Init ==
    ValidatorsIdle /\ FetchIdle /\ LoaderIdle /\ ReporterIdle

SpecValidators ==
    Init /\ [][NextValidators]_vars

SpecFetch ==
    Init /\ [][NextFetch]_vars

\* timers fire and time passes; the server and the network owe nothing
SpecFetchFair ==
    /\ SpecFetch
    /\ WF_vars(WatchdogFires)
    /\ WF_vars(BackoffTimerFires)
    /\ WF_vars(AdvanceTime)

SpecLoader ==
    Init /\ [][NextLoader]_vars

SpecReporter ==
    Init /\ [][NextReporter]_vars

\* the whole library: validator calls and a fetch, interleaved
Next ==
    NextValidators \/ NextFetch \/ NextLoader \/ NextReporter

Spec ==
    Init /\ [][Next]_vars

----------------------------------------------------------------------------
(* Properties of the validators, checked under SpecValidators *)

ValidatorDone(fn) ==
    vpc = "done" /\ vcall.fn = fn

\* the per-field rules of a segment, as the specification words them
FieldRulesHold(segment) ==
    /\ segment.tag = "object"
    /\ IsFiniteNumber(Get(segment, "Time")) /\ Get(segment, "Time").n >= 1
    /\ TypeOf(Get(segment, "Activity")) = "string"
    /\ Trim(Get(segment, "Activity").s) # ""
    /\ IsFiniteNumber(Get(segment, "Resistance"))
    /\ Get(segment, "Resistance").n \in 1..20
    /\ IsFiniteNumber(Get(segment, "Cadence"))
    /\ Get(segment, "Cadence").n \in 30..150
    /\ TypeOf(Get(segment, "Stroke instruction")) = "string"
    /\ IsFiniteNumber(Get(segment, "Elapsed Time"))
    /\ Get(segment, "Elapsed Time").n >= 0

RECURSIVE TimeSum(_, _)
TimeSum(items, i) ==
    IF i = 0 THEN 0 ELSE TimeSum(items, i - 1) + Get(items[i], "Time").n

\* non-empty, every field in range, every Elapsed Time the sum of Time up to it
ExactTimeline(workoutDetails) ==
    /\ IsArray(workoutDetails)
    /\ Len(workoutDetails.items) > 0
    /\ \A i \in 1..Len(workoutDetails.items) :
        /\ FieldRulesHold(workoutDetails.items[i])
        /\ Get(workoutDetails.items[i], "Elapsed Time").n = TimeSum(workoutDetails.items, i)

\* C1: validateWorkoutDetails accepts, with no error, every non-empty sequence of
\* segments whose fields are in range and whose Elapsed Time values are exactly the
\* running sums of Time.
C1_ExactTimelineAccepted ==
    (ValidatorDone("validateWorkoutDetails") /\ ExactTimeline(vcall.arg))
        => (~Threw(vout) /\ vout.valid /\ vout.errors = <<>>)

\* a timeline of three segments, the last Elapsed Time above 120, was accepted
C1_Witness ==
    /\ ValidatorDone("validateWorkoutDetails")
    /\ vmut = 0
    /\ ExactTimeline(vcall.arg)
    /\ Len(vcall.arg.items) >= 3
    /\ Get(vcall.arg.items[3], "Elapsed Time").n > 120
    /\ Get(vcall.arg.items[2], "Elapsed Time").n <= 120
    /\ ~Threw(vout) /\ vout.valid

\* C2: after the Elapsed Time of one segment of an accepted timeline is changed to
\* a wrong value, validateWorkoutDetails returns valid = false and every error it
\* reports is for that segment.
C2_ChangedElapsedRejected ==
    (vpc = "done" /\ vmut # 0)
        => /\ ~Threw(vout)
           /\ ~vout.valid
           /\ vout.errors # <<>>
           /\ \A k \in 1..Len(vout.errors) : vout.errors[k].idx = vmut - 1

\* C3: validateSegment, given a finite Time and a finite non-negative Elapsed Time
\* that is not previousElapsedTime + Time, returns an invalid result with an error
\* citing the expected value -- whatever the Elapsed Time, above 120 included.
C3_ElapsedMismatchRejected ==
    (/\ ValidatorDone("validateSegment")
     /\ vcall.arg.tag = "object"
     /\ IsFiniteNumber(Get(vcall.arg, "Time"))
     /\ IsFiniteNumber(Get(vcall.arg, "Elapsed Time"))
     /\ Get(vcall.arg, "Elapsed Time").n >= 0
     /\ Get(vcall.arg, "Elapsed Time").n
            # vcall.previousElapsedTime + Get(vcall.arg, "Time").n)
        => /\ ~vout.valid
           /\ \E k \in 1..Len(vout.errors) :
                /\ vout.errors[k].text = "does not match expected"
                /\ vout.errors[k].expected
                       = vcall.previousElapsedTime + Get(vcall.arg, "Time").n

\* C4: no accumulating validator throws: every call returns a ValidationResult.
C4_ValidatorsNeverThrow ==
    vpc = "done" => ~Threw(vout)

\* C5: every ValidationResult a validator returns has valid = false exactly when
\* its errors list is non-empty; warnings alone leave valid true.
C5_ValidIffNoErrors ==
    (vpc = "done" /\ ~Threw(vout))
        => (vout.valid <=> vout.errors = <<>>)

\* a list validator returned valid = true with two warnings and no error
C5_Witness ==
    /\ vpc = "done"
    /\ vcall.fn \in {"validateWorkoutsList", "validateWorkoutDetails"}
    /\ ~Threw(vout)
    /\ Len(vout.warnings) >= 2
    /\ vout.errors = <<>>
    /\ vout.valid

\* the result of the element validator a list validator calls
ChildResult(fn, element) ==
    IF fn = "validateWorkoutsList" THEN validateWorkout(element)
    ELSE validateVideo(element)

\* the index prefix of the element at (0-based) index i
ChildPrefix(fn, i) ==
    (IF fn = "validateWorkoutsList" THEN "Workout " ELSE "Video ")
        \o ToString(i) \o ": "

\* the errors (which = "errors") or warnings of all elements, each prefixed with
\* its element's index, in element order
RECURSIVE Gathered(_, _, _)
Gathered(fn, items, which) ==
    IF Len(items) = 0 THEN <<>>
    ELSE Gathered(fn, SubSeq(items, 1, Len(items) - 1), which)
            \o Prefixed(ChildResult(fn, items[Len(items)])[which],
                        ChildPrefix(fn, Len(items) - 1))

ListValidatorDone ==
    vpc = "done" /\ vcall.fn \in {"validateWorkoutsList", "validateVideosList"}

\* C14: validateWorkoutsList and validateVideosList return valid = false for a
\* non-array and valid = true with one warning for an empty array; otherwise the
\* result is valid exactly when every element's result is valid, and its errors
\* and its warnings are the concatenation, in element order, of every element's
\* errors and warnings, each prefixed with the element's index, none dropped.
C14_ListAggregation ==
    ListValidatorDone
        => /\ ~IsArray(vcall.arg) => ~vout.valid
           /\ (IsArray(vcall.arg) /\ Len(vcall.arg.items) = 0)
                => (vout.valid /\ Len(vout.warnings) = 1 /\ vout.errors = <<>>)
           /\ (IsArray(vcall.arg) /\ Len(vcall.arg.items) > 0)
                => /\ vout.valid <=>
                        \A i \in 1..Len(vcall.arg.items) :
                            ChildResult(vcall.fn, vcall.arg.items[i]).valid
                   /\ vout.errors = Gathered(vcall.fn, vcall.arg.items, "errors")
                   /\ vout.warnings = Gathered(vcall.fn, vcall.arg.items, "warnings")

\* a list of an invalid workout followed by a valid one was found invalid, with
\* the first element's errors and warnings under the prefix "Workout 0: "
C14_Witness ==
    /\ ValidatorDone("validateWorkoutsList")
    /\ IsArray(vcall.arg)
    /\ Len(vcall.arg.items) = 2
    /\ ~validateWorkout(vcall.arg.items[1]).valid
    /\ validateWorkout(vcall.arg.items[2]).valid
    /\ ~vout.valid
    /\ Len(vout.errors) >= 1
    /\ Len(vout.warnings) >= 2
    /\ StartsWith(vout.errors[1], "Workout 0: ")

\* the hostname of url is an allowed domain, or ends with "." and one, case aside
HostMatches(url, allowedDomains) ==
    \E k \in 1..Len(allowedDomains) :
        LET host == ToLowerCase(ParseURL(url).hostname)
            allowed == ToLowerCase(allowedDomains[k])
        IN \/ host = allowed
           \/ /\ Len(host) > Len(allowed)
              /\ SubSeq(host, Len(host) - Len(allowed), Len(host)) = "." \o allowed

\* C15: validateUrl returns valid = false exactly when url is empty or blank, or
\* does not parse, or has a scheme other than http and https, or a non-empty
\* allowedDomains is given and the hostname neither equals an allowed domain nor
\* ends with "." and an allowed domain (case aside): sub.github.com matches
\* github.com, notgithub.com does not.  An http URL gets the insecure-protocol
\* warning and is not invalid for it.
C15_UrlRule ==
    ValidatorDone("validateUrl")
        => LET url == vcall.arg
               allowedDomains == vcall.allowedDomains
               blank == Trim(url) = ""
               parses == ParseURL(url).ok
               http == parses /\ ParseURL(url).protocol = "http:"
               https == parses /\ ParseURL(url).protocol = "https:"
               refused == Len(allowedDomains) > 0 /\ ~HostMatches(url, allowedDomains)
           IN /\ ~vout.valid <=>
                    (blank \/ ~parses \/ ~(http \/ https) \/ refused)
              /\ (~blank /\ http)
                    => /\ vout.warnings = <<"URL uses insecure HTTP protocol">>
                       /\ vout.valid <=> ~refused
              /\ (url = "https://sub.github.com/w.JSON" /\ allowedDomains = <<"github.com">>)
                    => vout.valid
              /\ (url = "https://notgithub.com/w.json" /\ allowedDomains = <<"github.com">>)
                    => ~vout.valid
              /\ url = "ftp://x.com/f.json" => ~vout.valid

\* a subdomain of an allowed domain written in another case was accepted
C15_Witness ==
    /\ ValidatorDone("validateUrl")
    /\ vcall.arg = "https://sub.github.com/w.JSON"
    /\ vcall.allowedDomains = <<"GitHub.com", "amazonaws.com">>
    /\ vout.valid
    /\ vout.warnings = <<>>

\* v is a finite number in lo..hi
InRange(v, lo, hi) ==
    IsFiniteNumber(v) /\ v.n >= lo /\ v.n <= hi

\* Activity, Stroke instruction and Elapsed Time of the segment pass their rules
OtherFieldsValid(segment, previousElapsedTime) ==
    /\ segment.tag = "object"
    /\ TypeOf(Get(segment, "Activity")) = "string"
    /\ Trim(Get(segment, "Activity").s) # ""
    /\ TypeOf(Get(segment, "Stroke instruction")) = "string"
    /\ IsFiniteNumber(Get(segment, "Elapsed Time"))
    /\ Get(segment, "Elapsed Time").n >= 0
    /\ IsFiniteNumber(Get(segment, "Time"))
        => Get(segment, "Elapsed Time").n
               = previousElapsedTime + Get(segment, "Time").n

\* C16: with the other fields valid, validateSegment returns valid = true exactly
\* when Resistance is in [1,20], Cadence is in [30,150] and Time is >= 1 (the
\* bounds included); a Time above 60 adds a warning and leaves the result valid.
C16_NumericRanges ==
    (ValidatorDone("validateSegment")
        /\ OtherFieldsValid(vcall.arg, vcall.previousElapsedTime))
        => LET time == Get(vcall.arg, "Time")
               inRanges == /\ InRange(Get(vcall.arg, "Resistance"), 1, 20)
                           /\ InRange(Get(vcall.arg, "Cadence"), 30, 150)
                           /\ IsFiniteNumber(time) /\ time.n >= 1
           IN /\ vout.valid <=> inRanges
              /\ (inRanges /\ time.n > 60)
                    => /\ vout.valid
                       /\ \E k \in 1..Len(vout.warnings) : vout.warnings[k].field = "Time"
              /\ (inRanges /\ time.n <= 60)
                    => \A k \in 1..Len(vout.warnings) : vout.warnings[k].field # "Time"

\* a segment of 61 minutes at Resistance 20 and Cadence 150 was found valid, with
\* the warning for its Time
C16_Witness ==
    /\ ValidatorDone("validateSegment")
    /\ OtherFieldsValid(vcall.arg, vcall.previousElapsedTime)
    /\ Get(vcall.arg, "Time") = Num(61)
    /\ Get(vcall.arg, "Resistance") = Num(20)
    /\ Get(vcall.arg, "Cadence") = Num(150)
    /\ vout.valid
    /\ Len(vout.warnings) >= 1

----------------------------------------------------------------------------
(* Properties of fetchWithRetry, checked under SpecFetch *)

\* C6: once a response with status 400, 401, 403, 404, 405 or 422 has arrived the
\* call has thrown a NetworkError carrying that status, at that moment: no request
\* and no backoff wait follows it, and if it answered the first attempt the
\* endpoint was requested exactly once.
C6_NonRetriableStopsAtOnce ==
    (fpc # "idle" /\ hist.lastStatus \in {400, 401, 403, 404, 405, 422})
        => /\ fpc = "thrown"
           /\ fout.name = "NetworkError"
           /\ fout.statusCode = Num(hist.lastStatus)
           /\ net = NoRequest
           /\ timers = {}
           /\ now = hist.failedAt
           /\ hist.requests = hist.failures
           /\ Len(hist.waits) = hist.requests - 1
           /\ (hist.failures = 1 => hist.requests = 1)

\* with retries = 3, the first answer was 404 and the call threw after one request
C6_Witness ==
    /\ fpc = "thrown"
    /\ fcfg.retries = 3
    /\ hist.lastStatus = 404
    /\ fout.statusCode = Num(404)
    /\ hist.requests = 1

\* the failures the claim calls retriable: a timeout, a network error, a status
\* that is neither 2xx nor one of the six
RetriableFailure(error) ==
    \/ error \in {AbortError, FetchFailed}
    \/ /\ error.name = "NetworkError"
       /\ error.statusCode # Undefined
       /\ error.statusCode.n \notin {400, 401, 403, 404, 405, 422}
       /\ error.statusCode.n \notin 200..299

\* at most retries + 1 requests
RequestsBounded ==
    fpc # "idle" => hist.requests <= fcfg.retries + 1

\* thrown after a retriable failure: every one of the retries + 1 attempts was made
\* and failed, and the error thrown wraps the last failure
ExhaustedThrowsLast ==
    (fpc = "thrown" /\ hist.requests > 0 /\ RetriableFailure(hist.lastFailure))
        => /\ hist.requests = fcfg.retries + 1
           /\ hist.failures = fcfg.retries + 1
           /\ fout.name = "NetworkError"
           /\ fout.statusCode = Undefined
           /\ fout.cause = hist.lastFailure

\* C7 (as amended): fetchWithRetry never issues more than retries + 1 requests;
\* when every attempt fails with a retriable failure -- a timeout, a network error,
\* a non-2xx status outside the non-retriable set, or a failure while the body of
\* a 2xx response is read -- it issues exactly retries + 1 requests and throws a
\* NetworkError whose cause is the last failure; when the body of a 2xx response
\* has been read it returns that body and issues no further request.
C7_AttemptsBoundedAmended ==
    /\ RequestsBounded
    /\ ExhaustedThrowsLast
    /\ fpc = "returned"
        => /\ fout.returned \in Bodies
           /\ ResponseOk(hist.lastStatus)
           /\ hist.requests = attempt + 1
           /\ hist.requests = hist.failures + 1
           /\ net = NoRequest
           /\ timers = {}

\* the last permitted attempt of a call with retries = 3 returned the body
C7_Witness ==
    /\ fpc = "returned"
    /\ fcfg.retries = 3
    /\ hist.requests = 4
    /\ hist.lastFailure = FetchFailed
    /\ fout.returned = "[]"

\* C7 (as claimed): as above, but an attempt that has got a 2xx response returns
\* its body and no further request follows that response.
C7_AttemptsBoundedOriginal ==
    /\ RequestsBounded
    /\ ExhaustedThrowsLast
    /\ (fpc # "idle" /\ ResponseOk(hist.lastStatus))
        => /\ fpc \in {"reading", "returned"}
           /\ hist.requests = attempt + 1

\* C8: the wait asked for after the failure of attempt k < retries is
\* retryDelayMs * 2^k (1000, 2000, 4000 ms with the defaults), the next request is
\* issued no sooner than that after the failure, and no wait follows the final
\* attempt before the error is thrown.
C8_BackoffSchedule ==
    (fpc # "idle" /\ hist.requests > 0)
        => /\ \A k \in 1..Len(hist.waits) :
                hist.waits[k] = fcfg.retryDelayMs * 2^(k - 1)
           /\ hist.requests >= 2
                => hist.gap >= fcfg.retryDelayMs * 2^(hist.requests - 2)
           /\ Len(hist.waits) <= fcfg.retries
           /\ fpc = "backoff"
                => /\ attempt < fcfg.retries
                   /\ Len(hist.waits) = attempt + 1
                   /\ timers = {[kind |-> "backoff", attempt |-> attempt,
                                 at |-> hist.failedAt + fcfg.retryDelayMs * 2^attempt]}
           /\ fpc = "thrown"
                => /\ timers = {}
                   /\ now = hist.failedAt
                   /\ Len(hist.waits) = hist.requests - 1
           /\ (fcfg.retryDelayMs = 1000 /\ Len(hist.waits) = 3)
                => hist.waits = <<1000, 2000, 4000>>

\* the fourth request of a default call goes out 4000 ms after the third failure
C8_Witness ==
    /\ fpc = "fetching"
    /\ fcfg.retryDelayMs = 1000
    /\ hist.requests = 4
    /\ hist.waits = <<1000, 2000, 4000>>
    /\ hist.gap = 4000
    /\ now = hist.issuedAt

\* C9: a url that does not parse, or whose scheme is neither http nor https, makes
\* the call throw NetworkError at once: no request, no timer, no wait.
C9_BadUrlThrowsAtOnce ==
    (fpc # "idle" /\ fcfg.url \in OtherUrls)
        => /\ fpc = "thrown"
           /\ fout.name = "NetworkError"
           /\ fout.statusCode = Undefined
           /\ hist.requests = 0
           /\ hist.waits = <<>>
           /\ timers = {}
           /\ net = NoRequest
           /\ now = 0

\* an ftp url was refused with no request made
C9_Witness ==
    /\ fpc = "thrown"
    /\ fcfg.url = "ftp://example.com/w.json"
    /\ fout.message = "Unsupported protocol"
    /\ hist.requests = 0

\* C10: a request in flight -- its response not yet fully received -- is never
\* older than timeoutMs: at that age its own watchdog is armed and aborts it, the
\* abort counts as a retriable failure, and a watchdog aborts only the request of
\* its own attempt.
C10_TimeoutBoundsEveryAttempt ==
    /\ net.phase # "none"
        => \/ now < net.startedAt + fcfg.timeoutMs
           \/ /\ now = net.startedAt + fcfg.timeoutMs
              /\ Watchdogs(net.attempt) # {}
    /\ \A a \in hist.aborts : a[1] = a[2]
    /\ (fpc # "idle" /\ hist.lastFailure = AbortError) => RetriableFailure(hist.lastFailure)

----------------------------------------------------------------------------
(* Properties of the loader, checked under SpecLoader *)

LoaderDone(fn) ==
    lpc = "done" /\ lcall.fn = fn

\* the (1-based) positions of the segments whose Elapsed Time is >= t
EndsAtOrAfter(segments, t) ==
    {i \in 1..Len(segments) : Get(segments[i], "Elapsed Time").n >= t}

Least(S) ==
    CHOOSE x \in S : \A y \in S : x <= y

EndsOf(segments) ==
    [i \in 1..Len(segments) |-> Get(segments[i], "Elapsed Time").n]

\* C11: getCurrentSegment returns the first segment, in sequence order, whose
\* Elapsed Time is >= elapsedMinutes; the first segment for a negative
\* elapsedMinutes; null when elapsedMinutes exceeds every Elapsed Time or the
\* sequence is empty.  With Elapsed Times 5, 10: 7 gives the second segment, 15
\* gives null, -1 gives the first.  The clause for a negative elapsedMinutes
\* is the one that speaks for such a time; the other two speak for the rest.
C11_CurrentSegment ==
    LoaderDone("getCurrentSegment")
        => LET segments == lcall.segments
               t == lcall.elapsedMinutes
               hits == EndsAtOrAfter(segments, t)
           IN /\ (t >= 0 /\ hits # {})
                    => /\ lout.at = Least(hits)
                       /\ lout.returned = segments[Least(hits)]
              /\ (t < 0 /\ Len(segments) > 0)
                    => (lout.at = 1 /\ lout.returned = segments[1])
              /\ (t >= 0 /\ hits = {}) => (lout.at = 0 /\ lout.returned = Null)
              /\ Len(segments) = 0 => lout.returned = Null
              /\ EndsOf(segments) = <<5, 10>>
                    => /\ t = 7 => lout.at = 2
                       /\ t = 15 => lout.returned = Null
                       /\ t = -1 => lout.at = 1

\* asked about minute 5 of a timeline that ends segments at 0, 5 and 5, the call
\* returned the second segment: the first of the two that end at 5
C11_Witness ==
    /\ LoaderDone("getCurrentSegment")
    /\ EndsOf(lcall.segments) = <<0, 5, 5>>
    /\ lcall.elapsedMinutes = 5
    /\ lout.at = 2

\* what the file of the call holds, when it holds JSON
FileHolds(P(_)) ==
    /\ lcall.file.kind = "file"
    /\ JSONParse(lcall.file.content).ok
    /\ P(JSONParse(lcall.file.content).v)

\* every Elapsed Time is the sum of Time up to it
RunningSums(workoutDetails) ==
    /\ IsArray(workoutDetails)
    /\ \A i \in 1..Len(workoutDetails.items) :
        /\ IsFiniteNumber(Get(workoutDetails.items[i], "Time"))
        /\ IsFiniteNumber(Get(workoutDetails.items[i], "Elapsed Time"))
        /\ Get(workoutDetails.items[i], "Elapsed Time").n
               = TimeSum(workoutDetails.items, i)

LoadedAndValidated ==
    lpc = "validated" /\ lcall.fn = "loadWorkoutDetails"

\* C12 (as amended): when loadWorkoutDetails loads a file whose segments are within
\* the Validator's field rules (Time >= 1, a non-blank Activity, Resistance in
\* [1,20], Cadence in [30,150]) and whose Elapsed Time values are the exact
\* running sums of Time, validateWorkoutDetails of the loaded structure returns
\* valid = true with no error.
C12_RoundTripAmended ==
    (LoadedAndValidated /\ FileHolds(ExactTimeline))
        => (~Threw(lval) /\ lval.valid /\ lval.errors = <<>>)

\* a two-segment file, its first segment carrying a property of its own, was
\* loaded as six-field segments and validated as valid
C12_Witness ==
    /\ LoadedAndValidated
    /\ FileHolds(ExactTimeline)
    /\ "Notes" \in DOMAIN JSONParse(lcall.file.content).v.items[1].fields
    /\ Len(lout.returned.items) = 2
    /\ "Notes" \notin DOMAIN lout.returned.items[1].fields
    /\ lval.valid

\* C12 (as claimed): whenever loadWorkoutDetails loads a file without error and
\* the file's Elapsed Time values are the exact running sums of Time,
\* validateWorkoutDetails of the loaded structure returns valid = true.
C12_RoundTripOriginal ==
    (LoadedAndValidated /\ FileHolds(RunningSums))
        => (~Threw(lval) /\ lval.valid)

\* C20: a file whose parsed array validateWorkoutDetails finds valid is loaded by
\* loadWorkoutDetails: none of its per-element checks (object, Time > 0, Activity
\* string, Resistance in [0,20], Cadence in [0,150], Stroke instruction string,
\* Elapsed Time >= 0) fails, and every segment is returned.
C20_ValidatedFileLoads ==
    (lpc = "reloaded" /\ ~Threw(lval) /\ lval.valid)
        => /\ ~Threw(lout)
           /\ Len(lout.returned.items) = Len(JSONParse(lcall.file.content).v.items)
           /\ \A i \in 1..Len(lout.returned.items) :
                LoadSegmentCheck(JSONParse(lcall.file.content).v.items[i], i - 1)
                    = NoLoadError

\* a validated file of three segments, the last ending after minute 120, loaded
C20_Witness ==
    /\ lpc = "reloaded"
    /\ ~Threw(lval) /\ lval.valid
    /\ ~Threw(lout)
    /\ Len(lout.returned.items) = 3
    /\ Get(lout.returned.items[3], "Elapsed Time").n > 120

\* the Elapsed Time values grow from each segment to the next
StrictlyIncreasing(ends) ==
    \A i \in 1..(Len(ends) - 1) : ends[i] < ends[i + 1]

\* where the returned segment stands in the order of time: its position, and
\* the position past the last segment for null
Rank(result, segments) ==
    IF result.returned = Null THEN Len(segments) + 1 ELSE result.at

\* for the call's timeline and time: segment 0 for t <= ElapsedTime[0], segment
\* i > 0 exactly for ElapsedTime[i-1] < t <= ElapsedTime[i], null exactly for t
\* beyond the last Elapsed Time
PartitionsTime ==
    LET segments == lcall.segments
        ends == EndsOf(segments)
        n == Len(segments)
        t == lcall.elapsedMinutes
    IN /\ t <= ends[1] => (lout.at = 1 /\ lout.returned = segments[1])
       /\ \A i \in 2..n :
            (lout.at = i /\ lout.returned = segments[i])
                <=> (ends[i - 1] < t /\ t <= ends[i])
       /\ lout.returned = Null <=> t > ends[n]

\* at every later time asked about, the segment returned stands no earlier, and
\* after null comes null
NeverGoesBack ==
    LET segments == lcall.segments
    IN \A later \in ElapsedMinutesValues :
        later > lcall.elapsedMinutes
            => /\ Rank(getCurrentSegment(segments, Num(later)), segments)
                    >= Rank(lout, segments)
               /\ lout.returned = Null
                    => getCurrentSegment(segments, Num(later)).returned = Null

\* validateWorkoutDetails finds the timeline valid
Accepted(segments) ==
    validateWorkoutDetails(Arr(segments)).valid

----------------------------------------------------------------------------
(* Properties of the reporter, checked under SpecReporter *)

\* how the validator fares on a value that was read
ValidatorOutcome(validator, value) ==
    CHOOSE outcome \in
        {IF Threw(result) THEN "validator threw"
         ELSE IF result.valid THEN "valid" ELSE "not valid" :
         result \in {ApplyValidator(validator, value)}} : TRUE

\* how the i-th file of the list fares, told from what is on disk
FileOutcome(i) ==
    CHOOSE outcome \in
        {IF Threw(data) THEN "load threw"
         ELSE ValidatorOutcome(ReportFiles[i].validator, data.returned) :
         data \in {loadJsonFile(rfs[i])}} : TRUE

\* how each file of the list fares
RECURSIVE OutcomesOfFirst(_)
OutcomesOfFirst(n) ==
    IF n = 0 THEN <<>> ELSE Append(OutcomesOfFirst(n - 1), FileOutcome(n))

FileOutcomes ==
    OutcomesOfFirst(Len(ReportFiles))

\* every file of the list has its summary, in the order of the list, and every
\* summary has been printed after the heading
AllCheckedAndPrinted ==
    /\ Len(summaries) = Len(ReportFiles)
    /\ Len(printed) = Len(ReportFiles) + 2
    /\ \A i \in 1..Len(ReportFiles) :
        /\ summaries[i].file = ReportFiles[i].path
        /\ printed[i + 1].file = ReportFiles[i].path
        /\ printed[i + 1].status = "VALID" <=> summaries[i].valid
        /\ printed[i + 1].errors = summaries[i].errors
        /\ printed[i + 1].warnings = summaries[i].warnings

\* the files checked so far are the first files of the list, whatever any of
\* them threw
CheckedInOrder ==
    /\ Len(summaries) <= Len(ReportFiles)
    /\ \A i \in 1..Len(summaries) : summaries[i].file = ReportFiles[i].path

\* the process exits once, after all files, with the code the outcomes call
\* for; a summary says valid exactly of a file that fares well
ExitsAfterAllWith(InvalidOutcomes) ==
    /\ exitCode # -1 => rpc = "exited"
    /\ CheckedInOrder
    /\ rpc = "exited" =>
        /\ AllCheckedAndPrinted
        /\ \E outcomes \in {FileOutcomes} :
            /\ \A i \in 1..Len(ReportFiles) :
                summaries[i].valid <=> outcomes[i] = "valid"
            /\ exitCode =
                IF \E i \in 1..Len(ReportFiles) : outcomes[i] \in InvalidOutcomes
                THEN 1 ELSE 0

----------------------------------------------------------------------------
(* Properties of fetchWorkoutDetails and of the attempts of fetchWithRetry,
   checked under SpecFetch *)

\* C13: a WorkoutDetails value returned by loadWorkoutDetails or by
\* fetchWorkoutDetails is never empty: given the empty JSON array either one
\* throws DataLoadError.
C13_DetailsNeverEmpty ==
    /\ fwd.state = "returned" => Len(fwd.details.items) > 0
    /\ (fwd.state \in {"returned", "thrown"} /\ fpc = "returned" /\ fout.returned = "[]")
        => (fwd.state = "thrown" /\ fwd.error.thrown = "DataLoadError")
    /\ (lpc = "done" /\ lcall.fn = "loadWorkoutDetails" /\ ~Threw(lout))
        => Len(lout.returned.items) > 0
    /\ (lpc = "done" /\ lcall.fn = "loadWorkoutDetails" /\ FileHolds(IsArray)
            /\ Len(JSONParse(lcall.file.content).v.items) = 0)
        => (Threw(lout) /\ lout.thrown = "DataLoadError")

\* the requests of the call that were issued and have not finished: an attempt
\* finishes by failing, or by returning the body
InFlight ==
    hist.requests - hist.failures - (IF fpc = "returned" THEN 1 ELSE 0)

\* at most one request is in flight, the one of the current attempt, and the
\* call is then awaiting it
OneRequestAtMost ==
    /\ InFlight \in {0, 1}
    /\ InFlight = 1 <=> net.phase # "none"
    /\ net.phase # "none" =>
        /\ net.attempt = attempt
        /\ fpc \in {"fetching", "reading"}
        /\ hist.requests = attempt + 1

\* a request is issued with nothing in flight; a request after the first is that
\* of the next attempt, issued when the attempt before it has failed and
\* retryDelayMs * 2^k ms have passed since
IssuedInTurn ==
    hist'.requests > hist.requests =>
        /\ hist'.requests = hist.requests + 1
        /\ net.phase = "none"
        /\ InFlight = 0
        /\ net'.attempt = hist.requests
        /\ hist.requests > 0 =>
            /\ attempt' = attempt + 1
            /\ hist.failures = hist.requests
            /\ hist.lastFailure # NoError
            /\ now - hist.failedAt >= fcfg.retryDelayMs * 2^attempt

\* C18: the attempts of a fetchWithRetry call are strictly sequential: at every
\* moment at most one request of the call is in flight, and attempt k+1 is
\* issued only after attempt k has finished and the backoff wait after it has
\* elapsed.
C18_SequentialAttempts ==
    []OneRequestAtMost /\ [][IssuedInTurn]_vars

\* C18 witness: the third request of a call is in flight, its body being read,
\* after one attempt was aborted by its watchdog and another failed otherwise
C18_Witness ==
    /\ hist.requests = 3
    /\ hist.failures = 2
    /\ net.phase = "body"
    /\ hist.aborts # {}
    /\ hist.lastFailure # AbortError

\* C19: fetchWithRetry always terminates: whatever the server and the network
\* do, provided timers fire, a call that was made eventually returns a body or
\* throws a NetworkError.
C19_AlwaysTerminates ==
    (fpc # "idle") ~> (fpc \in {"returned", "thrown"})

====
